---------------------------- MODULE Spec2Model ----------------------------
(***************************************************************************)
(* Model of fea_solver.c: the element pipeline of a 10-node tetrahedron    *)
(* finite element solver (do_main -> initial_data_load -> solve ->         *)
(* new_fea_solver -> solver_create_element_database ->                     *)
(* solver_local_stiffness per element -> free_fea_solver), together with   *)
(* the 3x3 primitives det3x3 / inv3x3.                                     *)
(*                                                                         *)
(* Arithmetic.  The C type `real` is modelled by exact arithmetic (no      *)
(* rounding).  A scalar is <<n, d, e>>, standing for (n/d) * 2^e with n, d *)
(* odd and coprime, d > 0 (zero is <<0,1,0>>), so that the thresholds      *)
(* DBL_MIN = 2^-1022 and DBL_EPSILON = 2^-52 are representable.  A real is *)
(* a polynomial <<c0, c1, ...>> in the symbol b over such scalars, where b *)
(* stands for the quadrature literal 0.13819660 of gauss_nodes4_tetr10;    *)
(* the other literal of that table, 0.58541020, is 1 - 3*b exactly.  A     *)
(* real without a b term is the sequence <<c0>>, zero is << >>.            *)
(***************************************************************************)
EXTENDS Integers, Sequences, FiniteSets, TLC

(***************************************************************************)
(* Scalars: (n/d) * 2^e                                                    *)
(***************************************************************************)
RECURSIVE Gcd(_, _)
Gcd(a, b) == IF b = 0 THEN a ELSE Gcd(b, a % b)

IAbs(a) == IF a < 0 THEN -a ELSE a

RECURSIVE Pow2(_)
Pow2(k) == IF k = 0 THEN 1 ELSE 2 * Pow2(k - 1)

\* number of factors 2 in a (a # 0)
RECURSIVE Twos(_)
Twos(a) == IF a % 2 = 0 THEN 1 + Twos(a \div 2) ELSE 0

QZero == <<0, 1, 0>>

\* canonical scalar of (n/d) * 2^e, d # 0
QNorm(n, d, e) ==
  IF n = 0 THEN QZero
  ELSE LET s  == IF d < 0 THEN -1 ELSE 1
           g  == Gcd(IAbs(n), IAbs(d))
           n1 == (s * n) \div g
           d1 == (s * d) \div g
           tn == Twos(IAbs(n1))
           td == Twos(d1)
       IN  <<n1 \div Pow2(tn), d1 \div Pow2(td), e + tn - td>>

QInt(k) == QNorm(k, 1, 0)

QNeg(x) == <<-x[1], x[2], x[3]>>

QMul(x, y) ==
  IF x[1] = 0 \/ y[1] = 0 THEN QZero
  ELSE LET g1 == Gcd(IAbs(x[1]), y[2])
           g2 == Gcd(IAbs(y[1]), x[2])
       IN  <<(x[1] \div g1) * (y[1] \div g2),
             (x[2] \div g2) * (y[2] \div g1),
             x[3] + y[3]>>

QInv(x) == IF x[1] < 0 THEN <<-x[2], -x[1], -x[3]>> ELSE <<x[2], x[1], -x[3]>>

QAdd(x, y) ==
  IF x[1] = 0 THEN y
  ELSE IF y[1] = 0 THEN x
  ELSE LET e  == IF x[3] < y[3] THEN x[3] ELSE y[3]
           g  == Gcd(x[2], y[2])
           nx == x[1] * Pow2(x[3] - e) * (y[2] \div g)
           ny == y[1] * Pow2(y[3] - e) * (x[2] \div g)
       IN  QNorm(nx + ny, (x[2] \div g) * y[2], e)

\* floor(log2(n/d)) for n, d > 0
RECURSIVE Log2Floor(_, _)
Log2Floor(n, d) ==
  IF n >= d THEN (IF n >= 2 * d THEN 1 + Log2Floor(n, 2 * d) ELSE 0)
  ELSE Log2Floor(2 * n, d) - 1

\* x <= y for scalars x, y >= 0
QLeqPos(x, y) ==
  IF x[1] = 0 THEN TRUE
  ELSE IF y[1] = 0 THEN FALSE
  ELSE LET lx == x[3] + Log2Floor(x[1], x[2])
           ly == y[3] + Log2Floor(y[1], y[2])
       IN  IF lx # ly THEN lx < ly
           ELSE \* same binade: the exponents differ by little
                LET e == IF x[3] < y[3] THEN x[3] ELSE y[3]
                IN  x[1] * Pow2(x[3] - e) * y[2] <= y[1] * Pow2(y[3] - e) * x[2]

(***************************************************************************)
(* real: polynomials in b over the scalars                                 *)
(***************************************************************************)
RZero == << >>

RECURSIVE RTrim(_)
RTrim(p) ==
  IF p = << >> THEN p
  ELSE IF p[Len(p)][1] = 0 THEN RTrim(SubSeq(p, 1, Len(p) - 1))
  ELSE p

RConst(q) == IF q[1] = 0 THEN RZero ELSE <<q>>
RInt(k) == RConst(QInt(k))
RFrac(n, d) == RConst(QNorm(n, d, 0))
\* k * 2^e
RScaled(k, e) == RConst(QNorm(k, 1, e))

RCoef(p, i) == IF i <= Len(p) THEN p[i] ELSE QZero

RNeg(p) == IF p = << >> THEN p ELSE [i \in 1..Len(p) |-> QNeg(p[i])]

RAdd(p, q) ==
  IF p = << >> THEN q
  ELSE IF q = << >> THEN p
  ELSE LET m == IF Len(p) < Len(q) THEN Len(q) ELSE Len(p)
       IN  RTrim([i \in 1..m |-> QAdd(RCoef(p, i), RCoef(q, i))])

RSub(p, q) == RAdd(p, RNeg(q))

RECURSIVE QConv(_, _, _, _)
\* sum over i in 1..m of p[i] * q[k + 1 - i], the k-th coefficient of p * q
QConv(p, q, k, m) ==
  IF m = 0 THEN QZero
  ELSE LET j == k + 1 - m
       IN  IF j >= 1 /\ j <= Len(q)
           THEN QAdd(QConv(p, q, k, m - 1), QMul(p[m], q[j]))
           ELSE QConv(p, q, k, m - 1)

RMul(p, q) ==
  IF p = << >> \/ q = << >> THEN RZero
  ELSE IF Len(p) = 1 /\ Len(q) = 1 THEN <<QMul(p[1], q[1])>>
  ELSE RTrim([k \in 1..(Len(p) + Len(q) - 1) |-> QConv(p, q, k, Len(p))])

\* p / q; the divisor must carry no b term (CASE without OTHER otherwise)
RDiv(p, q) ==
  CASE Len(q) = 1 ->
         IF p = << >> THEN p
         ELSE LET r == QInv(q[1]) IN [i \in 1..Len(p) |-> QMul(p[i], r)]

\* fabs(); the argument must carry no b term
RAbs(p) ==
  CASE p = << >> -> p
    [] Len(p) = 1 -> IF p[1][1] < 0 THEN <<QNeg(p[1])>> ELSE p

\* |p| <= tol for a tolerance tol > 0 without b term
RAbsLeq(p, tol) ==
  CASE p = << >> -> TRUE
    [] Len(p) = 1 -> QLeqPos(RAbs(p)[1], tol[1])

(***************************************************************************)
(* Constants of the program                                                *)
(***************************************************************************)
MAX_DOF == 3

\* FLT_MIN = 2^-126 and DBL_MIN = 2^-1022: the tolerance of the EQL macro
FLT_MIN == RScaled(1, -126)
DBL_MIN == RScaled(1, -1022)
\* FLT_EPSILON = 2^-23 and DBL_EPSILON = 2^-52 (float.h); not used by the code
FLT_EPSILON == RScaled(1, -23)
DBL_EPSILON == RScaled(1, -52)

\* EQL written with the machine epsilon as its tolerance
EQL_epsilon(single, x, y) ==
  RAbsLeq(RSub(x, y), IF single THEN FLT_EPSILON ELSE DBL_EPSILON)

\* EQL(x,y): fabs((x)-(y)) <= FLT_MIN (SINGLE) or DBL_MIN
EQL(single, x, y) == RAbsLeq(RSub(x, y), IF single THEN FLT_MIN ELSE DBL_MIN)

DELTA(i, j) == IF i = j THEN 1 ELSE 0

\* a C array written as a sequence, indexed from 0 as in the source
ZSeq(s) == [i \in 0..(Len(s) - 1) |-> s[i + 1]]

\* the literals 0.13819660 (b) and 0.58541020 (a = 1 - 3b) of the 4 point table
LitB == <<QZero, QInt(1)>>
LitA == RSub(RInt(1), RMul(RInt(3), LitB))

\* the 4-point table with a fourth row that repeats the larger value in r
gauss_nodes4_tetr10_fourth_permuted ==
  LET w == RDiv(RFrac(1, 4), RInt(6))
  IN  ZSeq(<< ZSeq(<<w, LitA, LitB, LitB>>),
              ZSeq(<<w, LitB, LitA, LitB>>),
              ZSeq(<<w, LitB, LitB, LitA>>),
              ZSeq(<<w, LitA, LitB, LitB>>) >>)

\* Element: TETRAHEDRA10, 4 nodes: rows {weight, r, s, t}
gauss_nodes4_tetr10 ==
  LET w == RDiv(RFrac(1, 4), RInt(6))
  IN  ZSeq(<< ZSeq(<<w, LitA, LitB, LitB>>),
              ZSeq(<<w, LitB, LitA, LitB>>),
              ZSeq(<<w, LitB, LitB, LitA>>),
              ZSeq(<<w, LitB, LitB, LitB>>) >>)

\* Element: TETRAHEDRA10, 5 nodes
gauss_nodes5_tetr10 ==
  LET w0 == RDiv(RFrac(-4, 5), RInt(6))
      w1 == RDiv(RFrac(9, 20), RInt(6))
  IN  ZSeq(<< ZSeq(<<w0, RFrac(1, 4), RFrac(1, 4), RFrac(1, 4)>>),
              ZSeq(<<w1, RFrac(1, 2), RFrac(1, 6), RFrac(1, 6)>>),
              ZSeq(<<w1, RFrac(1, 6), RFrac(1, 2), RFrac(1, 6)>>),
              ZSeq(<<w1, RFrac(1, 6), RFrac(1, 6), RFrac(1, 2)>>),
              ZSeq(<<w1, RFrac(1, 6), RFrac(1, 6), RFrac(1, 6)>>) >>)

(***************************************************************************)
(* Shape functions of the 10-node tetrahedron and their local derivatives  *)
(***************************************************************************)
RK(k, x) == RMul(RInt(k), x)
RSum3(x, y, z) == RAdd(RAdd(x, y), z)

\* the shape functions with 4*r*(1-r-s) for the mid-edge node 4
tetrahedra10_isoform_short_edge(i, r, s, t) ==
  LET u == RSub(RSub(RSub(RInt(1), r), s), t)
  IN  CASE i = 0 -> RMul(RSub(RK(2, u), RInt(1)), u)
        [] i = 1 -> RMul(RSub(RK(2, r), RInt(1)), r)
        [] i = 2 -> RMul(RSub(RK(2, s), RInt(1)), s)
        [] i = 3 -> RMul(RSub(RK(2, t), RInt(1)), t)
        [] i = 4 -> RMul(RK(4, r), RAdd(u, t))
        [] i = 5 -> RMul(RK(4, r), s)
        [] i = 6 -> RMul(RK(4, s), u)
        [] i = 7 -> RMul(RK(4, t), u)
        [] i = 8 -> RMul(RK(4, r), t)
        [] i = 9 -> RMul(RK(4, s), t)
        [] OTHER -> RZero

tetrahedra10_isoform(i, r, s, t) ==
  LET u == RSub(RSub(RSub(RInt(1), r), s), t)
  IN  CASE i = 0 -> RMul(RSub(RK(2, u), RInt(1)), u)
        [] i = 1 -> RMul(RSub(RK(2, r), RInt(1)), r)
        [] i = 2 -> RMul(RSub(RK(2, s), RInt(1)), s)
        [] i = 3 -> RMul(RSub(RK(2, t), RInt(1)), t)
        [] i = 4 -> RMul(RK(4, r), u)
        [] i = 5 -> RMul(RK(4, r), s)
        [] i = 6 -> RMul(RK(4, s), u)
        [] i = 7 -> RMul(RK(4, t), u)
        [] i = 8 -> RMul(RK(4, r), t)
        [] i = 9 -> RMul(RK(4, s), t)
        [] OTHER -> RZero

\* the derivatives in r with -4t-4s-4r+4 for the mid-edge node 4
tetrahedra10_df_dr_half_slope(i, r, s, t) ==
  CASE i = 0 -> RSub(RSum3(RK(4, t), RK(4, s), RK(4, r)), RInt(3))
    [] i = 1 -> RSub(RK(4, r), RInt(1))
    [] i = 2 -> RZero
    [] i = 3 -> RZero
    [] i = 4 -> RAdd(RSum3(RK(-4, t), RK(-4, s), RK(-4, r)), RInt(4))
    [] i = 5 -> RK(4, s)
    [] i = 6 -> RK(-4, s)
    [] i = 7 -> RK(-4, t)
    [] i = 8 -> RK(4, t)
    [] i = 9 -> RZero
    [] OTHER -> RZero

tetrahedra10_df_dr(i, r, s, t) ==
  CASE i = 0 -> RSub(RSum3(RK(4, t), RK(4, s), RK(4, r)), RInt(3))
    [] i = 1 -> RSub(RK(4, r), RInt(1))
    [] i = 2 -> RZero
    [] i = 3 -> RZero
    [] i = 4 -> RAdd(RSum3(RK(-4, t), RK(-4, s), RK(-8, r)), RInt(4))
    [] i = 5 -> RK(4, s)
    [] i = 6 -> RK(-4, s)
    [] i = 7 -> RK(-4, t)
    [] i = 8 -> RK(4, t)
    [] i = 9 -> RZero
    [] OTHER -> RZero

tetrahedra10_df_ds(i, r, s, t) ==
  CASE i = 0 -> RSub(RSum3(RK(4, t), RK(4, s), RK(4, r)), RInt(3))
    [] i = 1 -> RZero
    [] i = 2 -> RSub(RK(4, s), RInt(1))
    [] i = 3 -> RZero
    [] i = 4 -> RK(-4, r)
    [] i = 5 -> RK(4, r)
    [] i = 6 -> RAdd(RSum3(RK(-4, t), RK(-8, s), RK(-4, r)), RInt(4))
    [] i = 7 -> RK(-4, t)
    [] i = 8 -> RZero
    [] i = 9 -> RK(4, t)
    [] OTHER -> RZero

tetrahedra10_df_dt(i, r, s, t) ==
  CASE i = 0 -> RSub(RSum3(RK(4, t), RK(4, s), RK(4, r)), RInt(3))
    [] i = 1 -> RZero
    [] i = 2 -> RZero
    [] i = 3 -> RSub(RK(4, t), RInt(1))
    [] i = 4 -> RK(-4, r)
    [] i = 5 -> RZero
    [] i = 6 -> RK(-4, s)
    [] i = 7 -> RAdd(RSum3(RK(-8, t), RK(-4, s), RK(-4, r)), RInt(4))
    [] i = 8 -> RK(4, r)
    [] i = 9 -> RK(4, s)
    [] OTHER -> RZero

tetrahedra10_disoform(shape, dof, r, s, t) ==
  CASE dof = 0 -> tetrahedra10_df_dr(shape, r, s, t)
    [] dof = 1 -> tetrahedra10_df_ds(shape, r, s, t)
    [] dof = 2 -> tetrahedra10_df_dt(shape, r, s, t)
    [] OTHER -> RZero

(***************************************************************************)
(* 3x3 primitives.  A matrix is a function 0..2 -> 0..2 -> real.           *)
(***************************************************************************)
det3x3(m) ==
  RAdd(RSub(RMul(m[0][0], RSub(RMul(m[1][1], m[2][2]), RMul(m[1][2], m[2][1]))),
            RMul(m[0][1], RSub(RMul(m[1][0], m[2][2]), RMul(m[1][2], m[2][0])))),
       RMul(m[0][2], RSub(RMul(m[1][0], m[2][1]), RMul(m[1][1], m[2][0]))))

Mat3(a00, a01, a02, a10, a11, a12, a20, a21, a22) ==
  ZSeq(<< ZSeq(<<a00, a01, a02>>), ZSeq(<<a10, a11, a12>>), ZSeq(<<a20, a21, a22>>) >>)

\* inv3x3 storing the first cofactor into m[0][0] before it tests the
\* determinant, so that a failed call leaves m partly written
inv3x3_store_before_test(single, m) ==
  LET det == det3x3(m)
      c00 == RSub(RMul(m[1][1], m[2][2]), RMul(m[1][2], m[2][1]))
      w   == [m EXCEPT ![0][0] = c00]
  IN  IF EQL(single, det, RZero)
      THEN [ret |-> FALSE, m |-> w, det |-> det]
      ELSE LET m00 == RDiv(w[0][0], det)
               m01 == RDiv(RSub(RMul(m[0][2], m[2][1]), RMul(m[0][1], m[2][2])), det)
               m02 == RDiv(RSub(RMul(m[0][1], m[1][2]), RMul(m[0][2], m[1][1])), det)
               m10 == RDiv(RSub(RMul(m[1][2], m[2][0]), RMul(m[1][0], m[2][2])), det)
               m11 == RDiv(RSub(RMul(m[0][0], m[2][2]), RMul(m[0][2], m[2][0])), det)
               m12 == RDiv(RSub(RMul(m[0][2], m[1][0]), RMul(m[0][0], m[1][2])), det)
               m20 == RDiv(RSub(RMul(m[1][0], m[2][1]), RMul(m[1][1], m[2][0])), det)
               m21 == RDiv(RSub(RMul(m[0][1], m[2][0]), RMul(m[0][0], m[2][1])), det)
               m22 == RDiv(RSub(RMul(m[0][0], m[1][1]), RMul(m[0][1], m[1][0])), det)
           IN  [ret |-> TRUE,
                m   |-> Mat3(m00, m01, m02, m10, m11, m12, m20, m21, m22),
                det |-> det]

\* inv3x3 storing through det the determinant of the matrix it leaves, the
\* inverse, instead of the determinant of its argument
inv3x3_det_of_result(single, m) ==
  LET det == det3x3(m)
  IN  IF EQL(single, det, RZero)
      THEN [ret |-> FALSE, m |-> m, det |-> det]
      ELSE LET m00 == RDiv(RSub(RMul(m[1][1], m[2][2]), RMul(m[1][2], m[2][1])), det)
               m01 == RDiv(RSub(RMul(m[0][2], m[2][1]), RMul(m[0][1], m[2][2])), det)
               m02 == RDiv(RSub(RMul(m[0][1], m[1][2]), RMul(m[0][2], m[1][1])), det)
               m10 == RDiv(RSub(RMul(m[1][2], m[2][0]), RMul(m[1][0], m[2][2])), det)
               m11 == RDiv(RSub(RMul(m[0][0], m[2][2]), RMul(m[0][2], m[2][0])), det)
               m12 == RDiv(RSub(RMul(m[0][2], m[1][0]), RMul(m[0][0], m[1][2])), det)
               m20 == RDiv(RSub(RMul(m[1][0], m[2][1]), RMul(m[1][1], m[2][0])), det)
               m21 == RDiv(RSub(RMul(m[0][1], m[2][0]), RMul(m[0][0], m[2][1])), det)
               m22 == RDiv(RSub(RMul(m[0][0], m[1][1]), RMul(m[0][1], m[1][0])), det)
               inv == Mat3(m00, m01, m02, m10, m11, m12, m20, m21, m22)
           IN  [ret |-> TRUE, m |-> inv, det |-> det3x3(inv)]

\* inv3x3(m, &det): [ret, m, det] - the return value, the matrix as the call
\* leaves it and the determinant stored through det
inv3x3(single, m) ==
  LET det == det3x3(m)
  IN  IF EQL(single, det, RZero)
      THEN [ret |-> FALSE, m |-> m, det |-> det]
      ELSE LET m00 == RDiv(RSub(RMul(m[1][1], m[2][2]), RMul(m[1][2], m[2][1])), det)
               m01 == RDiv(RSub(RMul(m[0][2], m[2][1]), RMul(m[0][1], m[2][2])), det)
               m02 == RDiv(RSub(RMul(m[0][1], m[1][2]), RMul(m[0][2], m[1][1])), det)
               m10 == RDiv(RSub(RMul(m[1][2], m[2][0]), RMul(m[1][0], m[2][2])), det)
               m11 == RDiv(RSub(RMul(m[0][0], m[2][2]), RMul(m[0][2], m[2][0])), det)
               m12 == RDiv(RSub(RMul(m[0][2], m[1][0]), RMul(m[0][0], m[1][2])), det)
               m20 == RDiv(RSub(RMul(m[1][0], m[2][1]), RMul(m[1][1], m[2][0])), det)
               m21 == RDiv(RSub(RMul(m[0][1], m[2][0]), RMul(m[0][0], m[2][1])), det)
               m22 == RDiv(RSub(RMul(m[0][0], m[1][1]), RMul(m[0][1], m[1][0])), det)
           IN  [ret |-> TRUE,
                m   |-> Mat3(m00, m01, m02, m10, m11, m12, m20, m21, m22),
                det |-> det]

(***************************************************************************)
(* Element database, shape gradients, constitutive tensor, local stiffness *)
(* as functions of the data they read                                      *)
(***************************************************************************)
RECURSIVE RSumTo(_, _)
\* f[0] + ... + f[n-1], accumulated in index order
RSumTo(f, n) == IF n = 0 THEN RZero ELSE RAdd(RSumTo(f, n - 1), f[n - 1])

\* solver_new_gauss_node: the entry of one quadrature point, read from `data`
gauss_node_of(data, nelem, dof, g) ==
  LET r == data[g][1]
      s == data[g][2]
      t == data[g][3]
  IN  [weight |-> data[g][0],
       forms  |-> [i \in 0..(nelem - 1) |-> tetrahedra10_isoform(i, r, s, t)],
       dforms |-> [j \in 0..(dof - 1) |->
                    [i \in 0..(nelem - 1) |-> tetrahedra10_disoform(i, j, r, s, t)]]]

\* the Jacobi matrix filled with its two indices exchanged
jacobi_matrix_transposed(gnode, coords, nelem) ==
  [i \in 0..(MAX_DOF - 1) |-> [j \in 0..(MAX_DOF - 1) |->
     RSumTo([k \in 0..(nelem - 1) |-> RMul(gnode.dforms[j][k], coords[k][i])], nelem)]]

\* the Jacobi matrix of solver_new_shape_gradients; coords[k] is what
\* solver_node_dof yields for local node k
jacobi_matrix(gnode, coords, nelem) ==
  [i \in 0..(MAX_DOF - 1) |-> [j \in 0..(MAX_DOF - 1) |->
     RSumTo([k \in 0..(nelem - 1) |-> RMul(gnode.dforms[i][k], coords[k][j])], nelem)]]

\* grads->grad filled from the shape function values, not their derivatives
grad_matrix_from_forms(gnode, Jinv, nelem) ==
  [i \in 0..(MAX_DOF - 1) |-> [j \in 0..(nelem - 1) |->
     RSumTo([k \in 0..(MAX_DOF - 1) |-> RMul(Jinv[i][k], gnode.forms[j])], MAX_DOF)]]

\* grads->grad as filled from the inverted matrix Jinv
grad_matrix(gnode, Jinv, nelem) ==
  [i \in 0..(MAX_DOF - 1) |-> [j \in 0..(nelem - 1) |->
     RSumTo([k \in 0..(MAX_DOF - 1) |-> RMul(Jinv[i][k], gnode.dforms[k][j])], MAX_DOF)]]

\* solver_ctensor reading mu from parameters[0] and lambda from parameters[1]
ctensor_of_swapped(lambda, mu) ==
  [i \in 0..(MAX_DOF - 1) |-> [j \in 0..(MAX_DOF - 1) |->
    [k \in 0..(MAX_DOF - 1) |-> [l \in 0..(MAX_DOF - 1) |->
      RAdd(RAdd(RMul(mu, RInt(DELTA(i, j) * DELTA(k, l))),
                RMul(lambda, RInt(DELTA(i, k) * DELTA(j, l)))),
           RMul(lambda, RInt(DELTA(i, l) * DELTA(j, k))))]]]]

\* solver_ctensor with DELTA(i,k)*DELTA(j,l) written twice, the second time in
\* place of DELTA(i,l)*DELTA(j,k)
ctensor_of_repeated_term(lambda, mu) ==
  [i \in 0..(MAX_DOF - 1) |-> [j \in 0..(MAX_DOF - 1) |->
    [k \in 0..(MAX_DOF - 1) |-> [l \in 0..(MAX_DOF - 1) |->
      RAdd(RAdd(RMul(lambda, RInt(DELTA(i, j) * DELTA(k, l))),
                RMul(mu, RInt(DELTA(i, k) * DELTA(j, l)))),
           RMul(mu, RInt(DELTA(i, k) * DELTA(j, l))))]]]]

\* solver_ctensor
ctensor_of(lambda, mu) ==
  [i \in 0..(MAX_DOF - 1) |-> [j \in 0..(MAX_DOF - 1) |->
    [k \in 0..(MAX_DOF - 1) |-> [l \in 0..(MAX_DOF - 1) |->
      RAdd(RAdd(RMul(lambda, RInt(DELTA(i, j) * DELTA(k, l))),
                RMul(mu, RInt(DELTA(i, k) * DELTA(j, l)))),
           RMul(mu, RInt(DELTA(i, l) * DELTA(j, k))))]]]]

\* the contribution without the factor fabs(detJ)
stiff_term_without_det(grad, detJ, weight, ctens, dof, a, b, i, j) ==
  LET sum == RSumTo([kl \in 0..(dof * dof - 1) |->
                      LET k == kl \div dof
                          l == kl % dof
                      IN  RMul(RMul(grad[k][a], ctens[i][k][j][l]), grad[l][b])],
                    dof * dof)
  IN  RMul(sum, weight)

\* the contribution with grad[k][b] where the code has grad[l][b]
stiff_term_repeated_index(grad, detJ, weight, ctens, dof, a, b, i, j) ==
  LET sum == RSumTo([kl \in 0..(dof * dof - 1) |->
                      LET k == kl \div dof
                          l == kl % dof
                      IN  RMul(RMul(grad[k][a], ctens[i][k][j][l]), grad[k][b])],
                    dof * dof)
  IN  RMul(RMul(sum, RAbs(detJ)), weight)

\* the contribution multiplied by detJ with its sign, not by fabs(detJ)
stiff_term_signed(grad, detJ, weight, ctens, dof, a, b, i, j) ==
  LET sum == RSumTo([kl \in 0..(dof * dof - 1) |->
                      LET k == kl \div dof
                          l == kl % dof
                      IN  RMul(RMul(grad[k][a], ctens[i][k][j][l]), grad[l][b])],
                    dof * dof)
  IN  RMul(RMul(sum, detJ), weight)

\* the contribution of one quadrature point divided once more by 6, the
\* volume divisor of the reference tetrahedron
stiff_term_volume_divided(grad, detJ, weight, ctens, dof, a, b, i, j) ==
  LET sum == RSumTo([kl \in 0..(dof * dof - 1) |->
                      LET k == kl \div dof
                          l == kl % dof
                      IN  RMul(RMul(grad[k][a], ctens[i][k][j][l]), grad[l][b])],
                    dof * dof)
  IN  RDiv(RMul(RMul(sum, RAbs(detJ)), weight), RInt(6))

\* the contribution of one quadrature point to stiff[a*dof+i][b*dof+j]
stiff_term(grad, detJ, weight, ctens, dof, a, b, i, j) ==
  LET sum == RSumTo([kl \in 0..(dof * dof - 1) |->
                      LET k == kl \div dof
                          l == kl % dof
                      IN  RMul(RMul(grad[k][a], ctens[i][k][j][l]), grad[l][b])],
                    dof * dof)
  IN  RMul(RMul(sum, RAbs(detJ)), weight)

\* stiff after the loops over a, b, i, j for one quadrature point
stiff_accumulate(stiff, grad, detJ, weight, ctens, nelem, dof) ==
  [I \in 0..(nelem * dof - 1) |-> [J \in 0..(nelem * dof - 1) |->
     RAdd(stiff[I][J],
          stiff_term(grad, detJ, weight, ctens, dof,
                     I \div dof, J \div dof, I % dof, J % dof))]]

(***************************************************************************)
(* Bounds and inputs                                                       *)
(***************************************************************************)
\* largest elements_count of a modelled mesh
MaxElements == 2
\* largest matrix entry drawn for the inv3x3 specification
MaxEntry == 2

\* new_fea_solution_params / new_fea_task defaults
NodesPerElement == 10
Dof == 3
DefaultLambda == 100
DefaultMu == 100

\* a null pointer; every pointer variable is a record with a null field
NULLP == [null |-> TRUE]

\* values of gauss-nodes-count the input file may carry (atoi of an attribute)
GaussCounts == {3, 4, 5}

\* node table of the regular reference tetrahedron: corners 0..3, then the
\* mid-edge nodes 4 (0-1), 5 (1-2), 6 (0-2), 7 (0-3), 8 (1-3), 9 (2-3)
RefNodes2 ==
  ZSeq(<< <<0, 0, 0>>, <<2, 0, 0>>, <<0, 2, 0>>, <<0, 0, 2>>, <<1, 0, 0>>,
          <<1, 1, 0>>, <<0, 1, 0>>, <<0, 0, 1>>, <<1, 0, 1>>, <<0, 1, 1>> >>)
RefNodeTable ==
  [k \in 0..(NodesPerElement - 1) |->
     [j \in 0..(MAX_DOF - 1) |-> RFrac(RefNodes2[k][j + 1], 2)]]

\* connectivity rows over that table
RowRef == ZSeq(<<0, 1, 2, 3, 4, 5, 6, 7, 8, 9>>)
\* corners 1 and 2 exchanged: negative determinant
RowInv == ZSeq(<<0, 2, 1, 3, 6, 5, 4, 7, 9, 8>>)
\* corner 3 collapsed onto corner 0: nodes 0, 3, 7 coincide, zero volume
RowDeg == ZSeq(<<0, 1, 2, 0, 4, 5, 6, 0, 4, 6>>)
\* first entry is nodes_count, not a node id
RowBad == ZSeq(<<10, 1, 2, 3, 4, 5, 6, 7, 8, 9>>)

Rows == {RowRef, RowInv, RowDeg, RowBad}
\* the element tables of 1..MaxElements rows
Meshes == UNION {[1..n -> Rows] : n \in 1..MaxElements}

\* material parameters (lambda, mu): the defaults of new_fea_task, and a pair
\* a model-parameters tag may set
Materials == {<<RInt(DefaultLambda), RInt(DefaultMu)>>, <<RInt(2), RInt(1)>>}

\* what a successful expat_data_load can hand to do_main: parameters_count
\* is 2 (new_fea_task, process_model_type), the rest comes from the file
Files ==
  [gauss_nodes_count : GaussCounts, parameters_count : {2},
   material : Materials, mesh : Meshes]
\* session data a caller of solve builds itself with fewer than 2 material
\* parameters; parameters[1] then holds whatever the caller left there
CallerInputs ==
  [gauss_nodes_count : {4, 5}, parameters_count : {1},
   material : {<<RInt(DefaultLambda), RZero>>, <<RInt(DefaultLambda), RInt(DefaultMu)>>},
   mesh : {m \in Meshes : Len(m) = 1}]

task_of(f) ==
  [null |-> FALSE, dof |-> Dof,
   parameters |-> ZSeq(f.material),
   parameters_count |-> f.parameters_count]
fea_params_of(f) ==
  [null |-> FALSE, nodes_per_element |-> NodesPerElement,
   gauss_nodes_count |-> f.gauss_nodes_count]
nodes_of(f) ==
  [null |-> FALSE, nodes_count |-> NodesPerElement, nodes |-> RefNodeTable]
elements_of(f) ==
  [null |-> FALSE, elements_count |-> Len(f.mesh), elements |-> ZSeq(f.mesh)]

(***************************************************************************)
(* Heap: a block is <<kind, element, gauss, row>> (-1 where not used)      *)
(***************************************************************************)
Blk(kind, e, g, r) == <<kind, e, g, r>>

input_blocks(f) ==
  {Blk("task", -1, -1, -1), Blk("fea_params", -1, -1, -1),
   Blk("nodes_array", -1, -1, -1), Blk("nodes", -1, -1, -1),
   Blk("elements_array", -1, -1, -1), Blk("elements", -1, -1, -1),
   Blk("presc_boundary", -1, -1, -1)}
  \cup {Blk("node", -1, -1, n) : n \in 0..(NodesPerElement - 1)}
  \cup {Blk("element", e, -1, -1) : e \in 0..(Len(f.mesh) - 1)}

\* solver_new_gauss_node mallocs: node, forms, dforms, dforms[i]
gauss_node_blocks(g, dof) ==
  {Blk("gauss_node", -1, g, -1), Blk("forms", -1, g, -1), Blk("dforms", -1, g, -1)}
  \cup {Blk("dforms_row", -1, g, i) : i \in 0..(dof - 1)}

\* solver_local_stiffness mallocs: stiff and stiff[i]
stiff_blocks(e, size) ==
  {Blk("stiff", e, -1, -1)} \cup {Blk("stiff_row", e, -1, i) : i \in 0..(size - 1)}

\* solver_new_shape_gradients allocating the struct before it tests inv3x3
grads_alloc_before_test(ok, e, g, dof) ==
  {Blk("shape_gradients", e, g, -1)}
  \cup (IF ok
        THEN {Blk("grad", e, g, -1)} \cup {Blk("grad_row", e, g, i) : i \in 0..(dof - 1)}
        ELSE {})

\* what solver_new_shape_gradients mallocs, given the result of inv3x3
grads_alloc(ok, e, g, dof) ==
  IF ok
  THEN {Blk("shape_gradients", e, g, -1), Blk("grad", e, g, -1)}
       \cup {Blk("grad_row", e, g, i) : i \in 0..(dof - 1)}
  ELSE {}

\* what solver_free_shape_gradients passes to free
grads_free(e, g, dof) ==
  {Blk("grad_row", e, g, i) : i \in 0..(dof - 1)} \cup {Blk("grad", e, g, -1)}

\* the free counts after free() of every block of S
freed_more(fr, S) ==
  [b \in (DOMAIN fr) \cup S |->
     IF b \in S THEN (IF b \in DOMAIN fr THEN fr[b] ELSE 0) + 1 ELSE fr[b]]

(***************************************************************************)
(* State                                                                   *)
(***************************************************************************)
VARIABLES
  pc,               \* position of the run
  single,           \* built with SINGLE (real is float)
  result,           \* do_main: result
  diag,             \* the "Unable to load" message was printed
  task,             \* fea_task*
  fea_params,       \* fea_solution_params*
  nodes,            \* nodes_array*
  elements,         \* elements_array*
  presc_boundary,   \* prescribed_boundary_array*
  gauss_nodes_data, \* solver->elements_db.gauss_nodes_data
  gauss_nodes,      \* solver->elements_db.gauss_nodes (<< >> when null)
  el,               \* solve: i, the element processed
  gauss,            \* solver_local_stiffness: gauss
  stiff,            \* solver_local_stiffness: stiff (<< >> when not allocated)
  ctens,            \* solver_local_stiffness: ctens
  grads,            \* solver_local_stiffness: grads
  J,                \* solver_new_shape_gradients: J; the argument of inv3x3
  detJ,             \* solver_new_shape_gradients: detJ; *det of inv3x3
  inv_ret,          \* value inv3x3 returned
  heap,             \* blocks malloc'ed and not freed
  frees,            \* how often each block was passed to free
  parent_tag,       \* parse_data: parent_tag ("none" outside expat_data_load)
  open_tags         \* tags expat has begun and not ended, innermost last

vars == <<pc, single, result, diag, task, fea_params, nodes, elements,
          presc_boundary, gauss_nodes_data, gauss_nodes, el, gauss, stiff,
          ctens, grads, J, detJ, inv_ret, heap, frees, parent_tag, open_tags>>

parse == <<parent_tag, open_tags>>
inputs == <<task, fea_params, nodes, elements, presc_boundary>>
locals == <<el, gauss, stiff, ctens, grads, J, detJ, inv_ret>>

ZeroMat3 == [i \in 0..(MAX_DOF - 1) |-> [j \in 0..(MAX_DOF - 1) |-> RZero]]

InitCommon ==
  /\ result = 0
  /\ diag = FALSE
  /\ task = NULLP
  /\ fea_params = NULLP
  /\ nodes = NULLP
  /\ elements = NULLP
  /\ presc_boundary = NULLP
  /\ gauss_nodes_data = "uninit"
  /\ gauss_nodes = << >>
  /\ el = 0
  /\ gauss = 0
  /\ stiff = << >>
  /\ ctens = << >>
  /\ grads = NULLP
  /\ detJ = RZero
  /\ inv_ret = FALSE
  /\ heap = {}
  /\ frees = << >>
  /\ parent_tag = "none"
  /\ open_tags = << >>

\* the run starts in do_main, or in a caller that builds the data for solve
Init ==
  /\ pc \in {"do_main", "caller"}
  /\ single = FALSE
  /\ J = ZeroMat3
  /\ InitCommon

(***************************************************************************)
(* do_main and solve                                                       *)
(***************************************************************************)
SetInputs(f) ==
  /\ task' = task_of(f)
  /\ fea_params' = fea_params_of(f)
  /\ nodes' = nodes_of(f)
  /\ elements' = elements_of(f)
  /\ presc_boundary' = [null |-> FALSE]
  /\ heap' = heap \cup input_blocks(f)

\* do_main up to the call of solve: initial_data_load and the check of its result
do_main_load ==
  /\ pc = "do_main"
  /\ \E ok \in BOOLEAN :
       IF ok
       THEN /\ \E f \in Files : SetInputs(f)
            /\ UNCHANGED <<result, diag>>
       ELSE /\ result' = 1
            /\ diag' = TRUE
            /\ UNCHANGED <<inputs, heap>>
  /\ pc' = "call_solve"
  /\ UNCHANGED <<parse, single, gauss_nodes_data, gauss_nodes, locals, frees>>

\* a caller other than do_main prepares the arguments of solve
caller_build ==
  /\ pc = "caller"
  /\ \E f \in CallerInputs : SetInputs(f)
  /\ pc' = "call_solve"
  /\ UNCHANGED <<parse, single, result, diag, gauss_nodes_data, gauss_nodes, locals, frees>>

\* the table solver_create_element_params_tetrahedra10 selects; no case of
\* the switch matches another count and the field keeps its malloc content
gauss_table_for(count) ==
  CASE count = 4 -> "tetr4"
    [] count = 5 -> "tetr5"
    [] OTHER -> "uninit"

\* solve up to solver_create_element_database: dump_input_data, new_fea_solver
solve_new_fea_solver ==
  /\ pc = "call_solve"
  /\ IF task.null \/ fea_params.null \/ nodes.null \/ elements.null
     THEN \* fields are read through null pointers
          /\ pc' \in {"crashed", "undefined"}
          /\ UNCHANGED <<gauss_nodes_data, gauss_nodes, heap>>
     ELSE /\ heap' = heap \cup {Blk("solver", -1, -1, -1)}
          /\ gauss_nodes' = << >>
          /\ gauss_nodes_data' = gauss_table_for(fea_params.gauss_nodes_count)
          /\ pc' = "create_db"
  /\ UNCHANGED <<parse, single, result, diag, inputs, locals, frees>>

table_data(name) ==
  CASE name = "tetr4" -> gauss_nodes4_tetr10
    [] name = "tetr5" -> gauss_nodes5_tetr10

\* malloc returns a block that is not live: the block named b, or another
\* block of the same kind while b is still allocated
fresh(b) == IF b \in heap THEN <<b[1] \o "'", b[2], b[3], b[4]>> ELSE b

\* what solver_create_element_database mallocs for `count` gauss nodes
element_database_blocks(count, dof) ==
  {Blk("gauss_nodes", -1, -1, -1)}
  \cup UNION {gauss_node_blocks(g, dof) : g \in 0..(count - 1)}

\* the test of solver_create_element_database written so that it never finds
\* a database
database_exists_never == FALSE

\* solver_create_element_database: self->elements_db.gauss_nodes is not null
database_exists == gauss_nodes # << >>

\* solver_create_element_database(self), control going to `after` on return
create_element_database(after) ==
  IF database_exists
  THEN /\ pc' = after
       /\ UNCHANGED <<gauss_nodes, heap>>
  ELSE \E data \in IF gauss_nodes_data = "uninit"
                   THEN \* read through an uninitialised pointer: a trap, or
                        \* whatever the pointer happens to address
                        {"trap", "tetr5"}
                   ELSE {gauss_nodes_data} :
         IF data = "trap"
         THEN /\ pc' = "crashed"
              /\ UNCHANGED <<gauss_nodes, heap>>
         ELSE LET count == fea_params.gauss_nodes_count
              IN  /\ gauss_nodes' =
                       [g \in 0..(count - 1) |->
                          gauss_node_of(table_data(data), fea_params.nodes_per_element,
                                        task.dof, g)]
                  /\ heap' = heap \cup {fresh(b) : b \in element_database_blocks(count, task.dof)}
                  /\ pc' = after

\* solve: solver_create_element_database(solver), then i = 0
solver_create_element_database ==
  /\ pc = "create_db"
  /\ create_element_database("elements")
  /\ el' = 0
  /\ UNCHANGED <<parse, single, result, diag, inputs, gauss_nodes_data, gauss, stiff,
                 ctens, grads, J, detJ, inv_ret, frees>>

\* solver_local_stiffness up to the loop over the gauss nodes, with a tensor
\* that also depends on the element processed
solver_local_stiffness_begin_tensor_of_element ==
  /\ pc = "elements"
  /\ el < elements.elements_count
  /\ LET size == fea_params.nodes_per_element * task.dof
     IN  /\ stiff' = [I \in 0..(size - 1) |-> [K \in 0..(size - 1) |-> RZero]]
         /\ heap' = heap \cup stiff_blocks(el, size)
  /\ ctens' = ctensor_of(RAdd(task.parameters[0], RInt(el)), task.parameters[1])
  /\ gauss' = 0
  /\ pc' = "gauss_loop"
  /\ UNCHANGED <<parse, single, result, diag, inputs, gauss_nodes_data, gauss_nodes, el,
                 grads, J, detJ, inv_ret, frees>>

\* solver_local_stiffness up to the loop over the gauss nodes
solver_local_stiffness_begin ==
  /\ pc = "elements"
  /\ el < elements.elements_count
  /\ LET size == fea_params.nodes_per_element * task.dof
     IN  /\ stiff' = [I \in 0..(size - 1) |-> [K \in 0..(size - 1) |-> RZero]]
         /\ heap' = heap \cup stiff_blocks(el, size)
  /\ ctens' = ctensor_of(task.parameters[0], task.parameters[1])
  /\ gauss' = 0
  /\ pc' = "gauss_loop"
  /\ UNCHANGED <<parse, single, result, diag, inputs, gauss_nodes_data, gauss_nodes, el,
                 grads, J, detJ, inv_ret, frees>>

valid_node(id) == id >= 0 /\ id < nodes.nodes_count

\* the coordinates read through the connectivity row of element 0, whatever
\* element is processed
element_coords_of_first_row(e, garbage) ==
  [k \in 0..(fea_params.nodes_per_element - 1) |->
     LET id == elements.elements[0][k]
     IN  IF valid_node(id) THEN nodes.nodes[id] ELSE garbage]

\* solver_node_dof for every local node of element e; an index outside the
\* table reads `garbage`
element_coords(e, garbage) ==
  [k \in 0..(fea_params.nodes_per_element - 1) |->
     LET id == elements.elements[e][k]
     IN  IF valid_node(id) THEN nodes.nodes[id] ELSE garbage]

\* solver_new_shape_gradients(self, el, gauss)
solver_new_shape_gradients ==
  /\ pc = "gauss_loop"
  /\ gauss < fea_params.gauss_nodes_count
  /\ \E out \in IF \A k \in 0..(fea_params.nodes_per_element - 1) :
                     valid_node(elements.elements[el][k])
                THEN {"ok"}
                ELSE \* read outside the node table: a trap, or garbage
                     {"trap", "garbage"} :
       IF out = "trap"
       THEN /\ pc' = "crashed"
            /\ UNCHANGED <<grads, J, detJ, inv_ret, heap>>
       ELSE LET nelem == fea_params.nodes_per_element
                gnode == gauss_nodes[gauss]
                Jm    == jacobi_matrix(gnode, element_coords(el, ZeroMat3[0]), nelem)
                r     == inv3x3(single, Jm)
            IN  /\ J' = r.m
                /\ detJ' = r.det
                /\ inv_ret' = r.ret
                /\ grads' = IF r.ret
                            THEN [null |-> FALSE,
                                  grad |-> grad_matrix(gnode, r.m, nelem),
                                  detJ |-> r.det]
                            ELSE NULLP
                /\ heap' = heap \cup grads_alloc(r.ret, el, gauss, task.dof)
                /\ pc' = "accumulate"
  /\ UNCHANGED <<parse, single, result, diag, inputs, gauss_nodes_data, gauss_nodes, el,
                 gauss, stiff, ctens, frees>>

\* the accumulation rescaling the weight stored in the database for the
\* gauss node it has just used
solver_local_stiffness_accumulate_in_place ==
  /\ pc = "accumulate"
  /\ stiff' = IF grads.null THEN stiff
              ELSE stiff_accumulate(stiff, grads.grad, grads.detJ,
                                    gauss_nodes[gauss].weight, ctens,
                                    fea_params.nodes_per_element, task.dof)
  /\ gauss_nodes' = IF grads.null THEN gauss_nodes
                    ELSE [gauss_nodes EXCEPT ![gauss].weight = RMul(@, RInt(2))]
  /\ pc' = "free_grads"
  /\ UNCHANGED <<parse, single, result, diag, inputs, gauss_nodes_data, el,
                 gauss, ctens, grads, J, detJ, inv_ret, heap, frees>>

\* solver_local_stiffness: if (grads) { loops over a, b, i, j }
solver_local_stiffness_accumulate ==
  /\ pc = "accumulate"
  /\ stiff' = IF grads.null THEN stiff
              ELSE stiff_accumulate(stiff, grads.grad, grads.detJ,
                                    gauss_nodes[gauss].weight, ctens,
                                    fea_params.nodes_per_element, task.dof)
  /\ pc' = "free_grads"
  /\ UNCHANGED <<parse, single, result, diag, inputs, gauss_nodes_data, gauss_nodes, el,
                 gauss, ctens, grads, J, detJ, inv_ret, heap, frees>>

\* solver_free_shape_gradients(self, grads) and the step to the next gauss node
solver_free_shape_gradients ==
  /\ pc = "free_grads"
  /\ IF grads.null
     THEN \* grads->grad is read through a null pointer: a trap, or the run
          \* goes on
          /\ \E out \in {"trap", "goes_on"} :
               IF out = "trap"
               THEN pc' = "crashed" /\ gauss' = gauss
               ELSE pc' = "gauss_loop" /\ gauss' = gauss + 1
          /\ UNCHANGED <<grads, heap, frees>>
     ELSE /\ heap' = heap \ grads_free(el, gauss, task.dof)
          /\ frees' = freed_more(frees, grads_free(el, gauss, task.dof))
          /\ grads' = [grads EXCEPT !.grad = << >>]
          /\ gauss' = gauss + 1
          /\ pc' = "gauss_loop"
  /\ UNCHANGED <<parse, single, result, diag, inputs, gauss_nodes_data, gauss_nodes, el,
                 stiff, ctens, J, detJ, inv_ret>>

\* solver_local_stiffness leaving the loop over the gauss nodes one node early
solver_local_stiffness_end_early ==
  /\ pc = "gauss_loop"
  /\ gauss >= fea_params.gauss_nodes_count - 1
  /\ LET S == stiff_blocks(el, fea_params.nodes_per_element * task.dof)
     IN  /\ heap' = heap \ S
         /\ frees' = freed_more(frees, S)
  /\ stiff' = << >>
  /\ el' = el + 1
  /\ pc' = "elements"
  /\ UNCHANGED <<parse, single, result, diag, inputs, gauss_nodes_data, gauss_nodes,
                 gauss, ctens, grads, J, detJ, inv_ret>>

\* solver_local_stiffness after the loop: clear local stiffness; solve: ++i
solver_local_stiffness_end ==
  /\ pc = "gauss_loop"
  /\ gauss >= fea_params.gauss_nodes_count
  /\ LET S == stiff_blocks(el, fea_params.nodes_per_element * task.dof)
     IN  /\ heap' = heap \ S
         /\ frees' = freed_more(frees, S)
  /\ stiff' = << >>
  /\ el' = el + 1
  /\ pc' = "elements"
  /\ UNCHANGED <<parse, single, result, diag, inputs, gauss_nodes_data, gauss_nodes,
                 gauss, ctens, grads, J, detJ, inv_ret>>

\* solve after the loop: free_fea_solver, and the return to the caller
free_fea_solver ==
  /\ pc = "elements"
  /\ el >= elements.elements_count
  /\ LET S == (IF gauss_nodes = << >> THEN {}
               ELSE {Blk("gauss_nodes", -1, -1, -1)}
                    \cup UNION {gauss_node_blocks(g, task.dof) :
                                  g \in 0..(fea_params.gauss_nodes_count - 1)})
              \cup {Blk("task", -1, -1, -1), Blk("fea_params", -1, -1, -1)}
              \cup (IF nodes.nodes_count # 0
                    THEN {Blk("node", -1, -1, n) : n \in 0..(nodes.nodes_count - 1)}
                         \cup {Blk("nodes", -1, -1, -1)}
                    ELSE {})
              \cup {Blk("nodes_array", -1, -1, -1)}
              \cup (IF elements.elements_count # 0
                    THEN {Blk("element", e, -1, -1) :
                            e \in 0..(elements.elements_count - 1)}
                         \cup {Blk("elements", -1, -1, -1)}
                    ELSE {})
              \cup {Blk("elements_array", -1, -1, -1)}
              \cup {Blk("presc_boundary", -1, -1, -1)}
              \cup {Blk("solver", -1, -1, -1)}
     IN  /\ heap' = heap \ S
         /\ frees' = freed_more(frees, S)
  /\ pc' = "done"
  /\ UNCHANGED <<parse, single, result, diag, inputs, gauss_nodes_data, gauss_nodes,
                 locals>>

Next ==
  \/ do_main_load
  \/ caller_build
  \/ solve_new_fea_solver
  \/ solver_create_element_database
  \/ solver_local_stiffness_begin
  \/ solver_new_shape_gradients
  \/ solver_local_stiffness_accumulate
  \/ solver_free_shape_gradients
  \/ solver_local_stiffness_end
  \/ free_fea_solver

Spec == Init /\ [][Next]_vars

(***************************************************************************)
(* A session in which the element database is requested a second time,     *)
(* before the first element is processed                                   *)
(***************************************************************************)
solver_create_element_database_again ==
  /\ pc = "elements"
  /\ el = 0
  /\ create_element_database("rebuilt")
  /\ UNCHANGED <<parse, single, result, diag, inputs, gauss_nodes_data, locals, frees>>

NextDb ==
  \/ do_main_load
  \/ caller_build
  \/ solve_new_fea_solver
  \/ solver_create_element_database
  \/ solver_create_element_database_again

SpecDb == Init /\ [][NextDb]_vars

(***************************************************************************)
(* inv3x3 on its own: the matrix is drawn from a bounded family, for both  *)
(* precisions                                                              *)
(***************************************************************************)
\* powers of two the entries are scaled by: the determinant is scaled by the
\* cube, which puts it around FLT_EPSILON, DBL_EPSILON, FLT_MIN and DBL_MIN
InvScales == {0, -8, -18, -42, -341}

\* [[1,a,0],[0,1,b],[c,0,r]] * 2^s, of determinant (r + a*b*c) * 2^(3s)
Matrices ==
  {Mat3(RScaled(1, s), RScaled(a, s), RZero,
        RZero, RScaled(1, s), RScaled(b, s),
        RScaled(c, s), RZero, RScaled(r, s)) :
     <<a, b, c, r, s>> \in (0..1) \X (0..1) \X (-1..1) \X (-1..MaxEntry) \X InvScales}

InitInv ==
  /\ pc = "inv3x3"
  /\ single \in BOOLEAN
  /\ J \in Matrices
  /\ InitCommon

\* BOOL inv3x3(real (*m)[3], real *det) applied to J, detJ
inv3x3_call ==
  /\ pc = "inv3x3"
  /\ LET r == inv3x3(single, J)
     IN  /\ J' = r.m
         /\ detJ' = r.det
         /\ inv_ret' = r.ret
  /\ pc' = "inv3x3_ret"
  /\ UNCHANGED <<parse, single, result, diag, inputs, gauss_nodes_data, gauss_nodes, el,
                 gauss, stiff, ctens, grads, heap, frees>>

NextInv == inv3x3_call

SpecInv == InitInv /\ [][NextInv]_vars

(***************************************************************************)
(* inv3x3 applied twice: the matrix left by a successful call is passed to *)
(* inv3x3 again                                                            *)
(***************************************************************************)
\* powers of two the entries are scaled by: large ones too, whose cube puts
\* the determinant of the inverse around FLT_MIN and DBL_MIN
RoundTripScales == {0, -8, 8, 42, 341}

\* [[1,a,0],[0,1,b],[c,0,r]] * 2^s as in Matrices
RoundTripMatrices ==
  {Mat3(RScaled(1, s), RScaled(a, s), RZero,
        RZero, RScaled(1, s), RScaled(b, s),
        RScaled(c, s), RZero, RScaled(r, s)) :
     <<a, b, c, r, s>> \in (0..1) \X (0..1) \X (-1..1) \X (-1..MaxEntry) \X RoundTripScales}

\* the first power of two a real cannot hold: 2^128 (float), 2^1024 (double)
real_overflow(sgl) == IF sgl THEN RScaled(1, 128) ELSE RScaled(1, 1024)

\* the determinant of the argument is a finite real
InitRoundTrip ==
  /\ pc = "inv3x3"
  /\ single \in BOOLEAN
  /\ J \in RoundTripMatrices
  /\ RAbsLeq(RMul(det3x3(J), RInt(2)), real_overflow(single))
  /\ InitCommon

\* inv3x3(m, &det) called again on the matrix a successful call has left
inv3x3_call_again ==
  /\ pc = "inv3x3_ret"
  /\ inv_ret
  /\ LET r == inv3x3(single, J)
     IN  /\ J' = r.m
         /\ detJ' = r.det
         /\ inv_ret' = r.ret
  /\ pc' = "inv3x3_ret2"
  /\ UNCHANGED <<parse, single, result, diag, inputs, gauss_nodes_data, gauss_nodes, el,
                 gauss, stiff, ctens, grads, heap, frees>>

NextRoundTrip ==
  \/ inv3x3_call
  \/ inv3x3_call_again

SpecRoundTrip == InitRoundTrip /\ [][NextRoundTrip]_vars

(***************************************************************************)
(* solver_local_stiffness on its own: one element of a built session, its  *)
(* geometry, material and quadrature rule drawn from bounded sets          *)
(***************************************************************************)
\* a second node table: the tetrahedron with corners (0,0,0), (2,0,0),
\* (1,2,0), (1,1,2) and its mid-edge nodes (coordinates doubled here)
SkewNodes2 ==
  ZSeq(<< <<0, 0, 0>>, <<4, 0, 0>>, <<2, 4, 0>>, <<2, 2, 4>>, <<2, 0, 0>>,
          <<3, 2, 0>>, <<1, 2, 0>>, <<1, 1, 2>>, <<3, 1, 2>>, <<2, 3, 2>> >>)
SkewNodeTable ==
  [k \in 0..(NodesPerElement - 1) |->
     [j \in 0..(MAX_DOF - 1) |-> RFrac(SkewNodes2[k][j + 1], 2)]]
BaseNodeTables == {RefNodeTable, SkewNodeTable}

\* factors applied to every coordinate of a node table
ElementScales == {RInt(1), RInt(3), RFrac(1, 2), RInt(-1)}
scaled_table(T, c) ==
  [k \in DOMAIN T |-> [j \in DOMAIN T[k] |-> RMul(c, T[k][j])]]

\* (lambda, mu) of a model-parameters tag
ElementMaterials ==
  {<<RInt(DefaultLambda), RInt(DefaultMu)>>, <<RInt(2), RInt(1)>>,
   <<RFrac(1, 2), RInt(3)>>}

ElementInputs ==
  [gauss_nodes_count : {4, 5}, parameters_count : {2},
   material : ElementMaterials,
   mesh : {<<RowRef>>, <<RowInv>>, <<RowDeg>>},
   table : {scaled_table(T, c) : T \in BaseNodeTables, c \in ElementScales}]

\* solve has built the solver and the element database and is about to call
\* solver_local_stiffness for element 0
InitElement ==
  /\ pc = "elements"
  /\ single = FALSE
  /\ result = 0
  /\ diag = FALSE
  /\ \E f \in ElementInputs :
       /\ task = task_of(f)
       /\ fea_params = fea_params_of(f)
       /\ nodes = [nodes_of(f) EXCEPT !.nodes = f.table]
       /\ elements = elements_of(f)
       /\ gauss_nodes_data = gauss_table_for(f.gauss_nodes_count)
       /\ gauss_nodes =
            [g \in 0..(f.gauss_nodes_count - 1) |->
               gauss_node_of(table_data(gauss_table_for(f.gauss_nodes_count)),
                             NodesPerElement, Dof, g)]
       /\ heap = input_blocks(f) \cup {Blk("solver", -1, -1, -1)}
                   \cup element_database_blocks(f.gauss_nodes_count, Dof)
  /\ presc_boundary = [null |-> FALSE]
  /\ el = 0
  /\ gauss = 0
  /\ stiff = << >>
  /\ ctens = << >>
  /\ grads = NULLP
  /\ J = ZeroMat3
  /\ detJ = RZero
  /\ inv_ret = FALSE
  /\ frees = << >>
  /\ parent_tag = "none"
  /\ open_tags = << >>

NextElement ==
  \/ solver_local_stiffness_begin
  \/ solver_new_shape_gradients
  \/ solver_local_stiffness_accumulate
  \/ solver_free_shape_gradients
  \/ solver_local_stiffness_end
  \/ free_fea_solver

SpecElement == InitElement /\ [][NextElement]_vars

\* solver_new_shape_gradients as a function of the gauss node and the
\* coordinates of the element's nodes
shape_gradients_of(gnode, coords, nelem, sgl) ==
  LET r == inv3x3(sgl, jacobi_matrix(gnode, coords, nelem))
  IN  [ok   |-> r.ret,
       grad |-> IF r.ret THEN grad_matrix(gnode, r.m, nelem) ELSE << >>,
       detJ |-> r.det]

RECURSIVE local_stiffness_upto(_, _, _, _, _, _, _)
\* stiff of solver_local_stiffness after the gauss nodes 0..n-1
local_stiffness_upto(gnodes, coords, ct, nelem, dof, sgl, n) ==
  IF n = 0
  THEN [I \in 0..(nelem * dof - 1) |-> [K \in 0..(nelem * dof - 1) |-> RZero]]
  ELSE LET prev == local_stiffness_upto(gnodes, coords, ct, nelem, dof, sgl, n - 1)
           sg   == shape_gradients_of(gnodes[n - 1], coords, nelem, sgl)
       IN  \* prev = prev, sg = sg: both are evaluated once, here
           IF prev = prev /\ sg = sg /\ sg.ok
           THEN stiff_accumulate(prev, sg.grad, sg.detJ, gnodes[n - 1].weight,
                                 ct, nelem, dof)
           ELSE prev

(***************************************************************************)
(* The loop of solve over the elements of a built session: meshes of one   *)
(* to MaxElements elements whose node ids are all in the node table        *)
(***************************************************************************)
SessionMeshes == UNION {[1..n -> {RowRef, RowInv, RowDeg}] : n \in 1..MaxElements}

SessionInputs ==
  [gauss_nodes_count : {4, 5}, parameters_count : {2},
   material : {<<RInt(2), RInt(1)>>},
   mesh : SessionMeshes,
   table : {SkewNodeTable}]

\* solve has built the solver and the element database and is about to call
\* solver_local_stiffness for element 0
InitSession ==
  /\ pc = "elements"
  /\ single = FALSE
  /\ result = 0
  /\ diag = FALSE
  /\ \E f \in SessionInputs :
       /\ task = task_of(f)
       /\ fea_params = fea_params_of(f)
       /\ nodes = [nodes_of(f) EXCEPT !.nodes = f.table]
       /\ elements = elements_of(f)
       /\ gauss_nodes_data = gauss_table_for(f.gauss_nodes_count)
       /\ gauss_nodes =
            [g \in 0..(f.gauss_nodes_count - 1) |->
               gauss_node_of(table_data(gauss_table_for(f.gauss_nodes_count)),
                             NodesPerElement, Dof, g)]
       /\ heap = input_blocks(f) \cup {Blk("solver", -1, -1, -1)}
                   \cup element_database_blocks(f.gauss_nodes_count, Dof)
  /\ presc_boundary = [null |-> FALSE]
  /\ el = 0
  /\ gauss = 0
  /\ stiff = << >>
  /\ ctens = << >>
  /\ grads = NULLP
  /\ J = ZeroMat3
  /\ detJ = RZero
  /\ inv_ret = FALSE
  /\ frees = << >>
  /\ parent_tag = "none"
  /\ open_tags = << >>

SpecSession == InitSession /\ [][NextElement]_vars

\* the local stiffness matrix of a session that holds the one element of
\* connectivity row `row` over the node table T, with `count` quadrature
\* points and the material (lambda, mu)
stiffness_alone(row, T, lambda, mu, count, nelem, dof, sgl) ==
  local_stiffness_upto(
    [g \in 0..(count - 1) |->
       gauss_node_of(table_data(gauss_table_for(count)), nelem, dof, g)],
    [k \in 0..(nelem - 1) |-> T[row[k]]],
    ctensor_of(lambda, mu), nelem, dof, sgl, count)

(***************************************************************************)
(* solver_ctensor on its own: the material parameters are drawn from a      *)
(* bounded set                                                             *)
(***************************************************************************)
\* values of parameters[0] and parameters[1]: the halves between -MaxEntry
\* and MaxEntry, and the default of new_fea_task
CtensorParams ==
  {RFrac(n, 2) : n \in (-2 * MaxEntry)..(2 * MaxEntry)} \cup {RInt(DefaultLambda)}

InitCtensor ==
  /\ pc = "ctensor"
  /\ single = FALSE
  /\ result = 0
  /\ diag = FALSE
  /\ \E lambda, mu \in CtensorParams :
       task = [null |-> FALSE, dof |-> Dof, parameters_count |-> 2,
               parameters |-> ZSeq(<<lambda, mu>>)]
  /\ fea_params = NULLP
  /\ nodes = NULLP
  /\ elements = NULLP
  /\ presc_boundary = NULLP
  /\ gauss_nodes_data = "uninit"
  /\ gauss_nodes = << >>
  /\ el = 0
  /\ gauss = 0
  /\ stiff = << >>
  /\ ctens = << >>
  /\ grads = NULLP
  /\ J = ZeroMat3
  /\ detJ = RZero
  /\ inv_ret = FALSE
  /\ heap = {Blk("task", -1, -1, -1)}
  /\ frees = << >>
  /\ parent_tag = "none"
  /\ open_tags = << >>

\* solver_ctensor(self, graddef, ctens)
solver_ctensor ==
  /\ pc = "ctensor"
  /\ ctens' = ctensor_of(task.parameters[0], task.parameters[1])
  /\ pc' = "ctensor_ret"
  /\ UNCHANGED <<parse, single, result, diag, inputs, gauss_nodes_data, gauss_nodes, el,
                 gauss, stiff, grads, J, detJ, inv_ret, heap, frees>>

NextCtensor == solver_ctensor

SpecCtensor == InitCtensor /\ [][NextCtensor]_vars

(***************************************************************************)
(* The expat handlers of expat_data_load over a well-nested sequence of    *)
(* begin-tag and end-tag events                                            *)
(***************************************************************************)
\* deepest nesting of tags in a modelled document
MaxDepth == 3
\* most node tables, and most element tables, a modelled document has
\* allocated (none is freed while the document is parsed)
MaxTables == 2

\* the values of xml_format_tags the modelled documents use
XmlTags == {"TASK", "INPUT_DATA", "GEOMETRY", "NODES", "ELEMENTS", "UNKNOWN_TAG"}
\* the attributes of a tag: none, or a count attribute and its atoi
NoAtts == [count |-> FALSE]
CountAttrs == {NoAtts, [count |-> TRUE, value |-> MaxElements]}

\* number of tables of one kind malloc'ed so far
tables_allocated(kind) == Cardinality({b \in heap : b[1] = kind})

\* expat_data_load after "allocate parse data": the arrays are empty, the
\* stack is initialised, parent_tag has not been assigned and holds whatever
\* the stack frame held
InitXml ==
  /\ pc = "XML_Parse"
  /\ single = FALSE
  /\ result = 0
  /\ diag = FALSE
  /\ task = task_of([material |-> <<RInt(DefaultLambda), RInt(DefaultMu)>>,
                     parameters_count |-> 2])
  /\ fea_params = fea_params_of([gauss_nodes_count |-> 5])
  /\ nodes = [null |-> FALSE, nodes_count |-> 0, nodes |-> NULLP]
  /\ elements = [null |-> FALSE, elements_count |-> 0, elements |-> NULLP]
  /\ presc_boundary = [null |-> FALSE]
  /\ gauss_nodes_data = "uninit"
  /\ gauss_nodes = << >>
  /\ el = 0
  /\ gauss = 0
  /\ stiff = << >>
  /\ ctens = << >>
  /\ grads = NULLP
  /\ J = ZeroMat3
  /\ detJ = RZero
  /\ inv_ret = FALSE
  /\ heap = {Blk("task", -1, -1, -1), Blk("fea_params", -1, -1, -1),
             Blk("nodes_array", -1, -1, -1), Blk("elements_array", -1, -1, -1),
             Blk("presc_boundary", -1, -1, -1)}
  /\ frees = << >>
  /\ parent_tag \in XmlTags
  /\ open_tags = << >>

\* process_nodes(data, atts)
process_nodes(atts) ==
  IF parent_tag = "GEOMETRY"
  THEN /\ IF atts.count
          THEN LET t == tables_allocated("nodes")
               IN  /\ nodes' = [nodes EXCEPT
                                  !.nodes_count = atts.value,
                                  !.nodes = [null |-> FALSE, blk |-> Blk("nodes", t, -1, -1)]]
                   /\ heap' = heap \cup {Blk("nodes", t, -1, -1)}
                                \cup {Blk("node", t, -1, i) : i \in 0..(atts.value - 1)}
          ELSE UNCHANGED <<nodes, heap>>
       /\ parent_tag' = "NODES"
       /\ UNCHANGED elements
  ELSE UNCHANGED <<nodes, elements, heap, parent_tag>>

\* process_elements(data, atts)
process_elements(atts) ==
  IF parent_tag = "GEOMETRY"
  THEN /\ IF atts.count
          THEN LET t == tables_allocated("elements")
               IN  /\ elements' = [elements EXCEPT
                                     !.elements_count = atts.value,
                                     !.elements = [null |-> FALSE,
                                                   blk |-> Blk("elements", t, -1, -1)]]
                   /\ heap' = heap \cup {Blk("elements", t, -1, -1)}
                                \cup {Blk("element", t, -1, i) : i \in 0..(atts.value - 1)}
          ELSE UNCHANGED <<elements, heap>>
       /\ parent_tag' = "ELEMENTS"
       /\ UNCHANGED nodes
  ELSE UNCHANGED <<nodes, elements, heap, parent_tag>>

\* process_begin_tag(data, tag, atts)
process_begin_tag(tag, atts) ==
  CASE tag = "TASK" -> UNCHANGED <<nodes, elements, heap, parent_tag>>
    [] tag \in {"INPUT_DATA", "GEOMETRY"} ->
         /\ parent_tag' = tag
         /\ UNCHANGED <<nodes, elements, heap>>
    [] tag = "NODES" -> process_nodes(atts)
    [] tag = "ELEMENTS" -> process_elements(atts)

\* the parent process_end_tag(data, tag) assigns
process_end_tag(tag) ==
  CASE tag = "INPUT_DATA" -> "TASK"
    [] tag = "GEOMETRY" -> "INPUT_DATA"
    [] tag \in {"NODES", "ELEMENTS"} -> "GEOMETRY"
    [] OTHER -> "UNKNOWN_TAG"

\* expat_start_tag_handler(userData, name, atts)
expat_start_tag_handler ==
  /\ pc = "XML_Parse"
  /\ Len(open_tags) < MaxDepth
  /\ \E tag \in XmlTags :
       \E atts \in IF tag \in {"NODES", "ELEMENTS"} THEN CountAttrs ELSE {NoAtts} :
         /\ (tag = "NODES" /\ atts.count) => tables_allocated("nodes") < MaxTables
         /\ (tag = "ELEMENTS" /\ atts.count) =>
              tables_allocated("elements") < MaxTables
         /\ open_tags' = Append(open_tags, tag)
         /\ IF tag # "UNKNOWN_TAG"
            THEN process_begin_tag(tag, atts)
            ELSE UNCHANGED <<nodes, elements, heap, parent_tag>>
  /\ UNCHANGED <<pc, single, result, diag, task, fea_params, presc_boundary,
                 gauss_nodes_data, gauss_nodes, locals, frees>>

\* expat_end_tag_handler(userData, name)
expat_end_tag_handler ==
  /\ pc = "XML_Parse"
  /\ open_tags # << >>
  /\ LET tag == open_tags[Len(open_tags)]
     IN  /\ parent_tag' = IF tag # "UNKNOWN_TAG" THEN process_end_tag(tag)
                          ELSE parent_tag
         /\ open_tags' = SubSeq(open_tags, 1, Len(open_tags) - 1)
  /\ UNCHANGED <<pc, single, result, diag, inputs, gauss_nodes_data, gauss_nodes,
                 locals, heap, frees>>

NextXml ==
  \/ expat_start_tag_handler
  \/ expat_end_tag_handler

SpecXml == InitXml /\ [][NextXml]_vars

(***************************************************************************)
(* solver_new_gauss_node on its own: the shape functions and their local   *)
(* derivatives are evaluated at a point drawn from a bounded grid          *)
(***************************************************************************)
\* values of r, s and t: quarters in and around the reference tetrahedron,
\* and the coordinates the two quadrature tables use
ShapeGrid ==
  {RFrac(n, 4) : n \in (-MaxEntry)..(2 * MaxEntry)} \cup {RFrac(1, 6), LitB, LitA}

\* gauss_nodes_data points to a table of one row {weight, r, s, t}
InitShape ==
  /\ pc = "new_gauss_node"
  /\ single = FALSE
  /\ result = 0
  /\ diag = FALSE
  /\ task = task_of([material |-> <<RInt(DefaultLambda), RInt(DefaultMu)>>,
                     parameters_count |-> 2])
  /\ fea_params = fea_params_of([gauss_nodes_count |-> 1])
  /\ nodes = NULLP
  /\ elements = NULLP
  /\ presc_boundary = NULLP
  /\ \E r, s, t \in ShapeGrid : gauss_nodes_data = ZSeq(<<ZSeq(<<RInt(1), r, s, t>>)>>)
  /\ gauss_nodes = << >>
  /\ el = 0
  /\ gauss = 0
  /\ stiff = << >>
  /\ ctens = << >>
  /\ grads = NULLP
  /\ J = ZeroMat3
  /\ detJ = RZero
  /\ inv_ret = FALSE
  /\ heap = {Blk("task", -1, -1, -1), Blk("fea_params", -1, -1, -1),
             Blk("solver", -1, -1, -1), Blk("gauss_nodes", -1, -1, -1)}
  /\ frees = << >>
  /\ parent_tag = "none"
  /\ open_tags = << >>

\* gauss_nodes[0] = solver_new_gauss_node(self, 0)
solver_new_gauss_node ==
  /\ pc = "new_gauss_node"
  /\ gauss_nodes' =
       [g \in {0} |-> gauss_node_of(gauss_nodes_data, fea_params.nodes_per_element,
                                    task.dof, g)]
  /\ heap' = heap \cup gauss_node_blocks(0, task.dof)
  /\ pc' = "new_gauss_node_ret"
  /\ UNCHANGED <<parse, single, result, diag, inputs, gauss_nodes_data, locals, frees>>

NextShape == solver_new_gauss_node

SpecShape == InitShape /\ [][NextShape]_vars

(***************************************************************************)
(* Properties                                                              *)
(***************************************************************************)
InLocalStiffness == pc \in {"gauss_loop", "accumulate", "free_grads"}
SolveEntered == pc \notin {"do_main", "caller", "call_solve", "inv3x3", "inv3x3_ret"}
GradKinds == {"shape_gradients", "grad", "grad_row"}

Identity3 ==
  [i \in 0..(MAX_DOF - 1) |-> [j \in 0..(MAX_DOF - 1) |-> RInt(DELTA(i, j))]]
MatMul3(A, B) ==
  [i \in 0..(MAX_DOF - 1) |-> [j \in 0..(MAX_DOF - 1) |->
     RSumTo([k \in 0..(MAX_DOF - 1) |-> RMul(A[i][k], B[k][j])], MAX_DOF)]]

\* C1: solver_free_shape_gradients is never entered with a null
\* shape_gradients pointer, whatever quadrature point failed to invert.
C1_NoNullFree == ~(pc = "free_grads" /\ grads.null)

\* C2: a quadrature point whose Jacobian does not invert changes no entry of
\* the element's stiffness matrix, and the run goes on with the next
\* quadrature point (the loop counter advances, nothing stops the run).
C2_DegenerateIsRecoverable ==
  [][/\ (pc = "accumulate" /\ grads.null) => stiff' = stiff
     /\ (pc = "free_grads" /\ grads.null) =>
          (stiff' = stiff /\ pc' = "gauss_loop" /\ gauss' = gauss + 1)]_vars

\* C3: with a gauss_nodes_count other than 4 or 5 the construction does not
\* get to the build of the element database, and the table pointer is never
\* unselected when solver_new_gauss_node is about to read it.
C3_UnsupportedCountFailsFast ==
  pc = "create_db" =>
    (fea_params.gauss_nodes_count \in {4, 5} /\ gauss_nodes_data # "uninit")

\* C4: solver_local_stiffness is called for no element unless every entry of
\* the connectivity table is a node id in 0..nodes_count-1.
C4_ConnectivityCheckedFirst ==
  InLocalStiffness =>
    \A e \in 0..(elements.elements_count - 1) :
      \A k \in 0..(fea_params.nodes_per_element - 1) :
        valid_node(elements.elements[e][k])

\* C5: when initial_data_load fails (the diagnostic was printed and result is
\* non-zero) solve is never entered.
C5_LoadFailureAborts == diag => (result # 0 /\ ~SolveEntered)

C7_FailsUpToEpsilon ==
  [][(pc = "inv3x3" /\ pc' = "inv3x3_ret") =>
       (inv_ret' = ~RAbsLeq(det3x3(J), IF single THEN FLT_EPSILON ELSE DBL_EPSILON))]_vars

\* C7 amended: inv3x3 returns FALSE exactly for the matrices whose
\* determinant is at most FLT_MIN (SINGLE) or DBL_MIN in absolute value, the
\* tolerance of EQL, and TRUE for every other matrix.
C7_FailsUpToMin ==
  [][(pc = "inv3x3" /\ pc' = "inv3x3_ret") =>
       (inv_ret' = ~RAbsLeq(det3x3(J), IF single THEN FLT_MIN ELSE DBL_MIN))]_vars

\* C7 witness: inv3x3 has returned TRUE in double precision for a determinant
\* that is not above DBL_EPSILON.
C7_Witness ==
  pc = "inv3x3_ret" /\ ~single /\ inv_ret /\ RAbsLeq(detJ, DBL_EPSILON)

\* C8: when inv3x3 returns FALSE the matrix is as it was before the call;
\* when it returns TRUE the matrix is the inverse of the matrix passed in
\* (its product with the original, on either side, is the identity).
C8_InverseOrUntouched ==
  [][(pc = "inv3x3" /\ pc' = "inv3x3_ret") =>
       IF inv_ret'
       THEN MatMul3(J', J) = Identity3 /\ MatMul3(J, J') = Identity3
       ELSE J' = J]_vars

\* C8 witness: inv3x3 has returned TRUE and left a matrix with entries off the
\* diagonal, in the first row and in the third.
C8_Witness ==
  pc = "inv3x3_ret" /\ inv_ret /\ J[0][1] # RZero /\ J[2][0] # RZero

\* C9: solver_new_shape_gradients returns null and has allocated nothing when
\* the inversion fails, and otherwise returns an object whose grad has all
\* dof x nodes_per_element entries and whose detJ is the one inv3x3 stored.
C9_NullAndNoAllocationOnFailure ==
  [][(pc = "gauss_loop" /\ pc' = "accumulate") =>
       IF inv_ret'
       THEN /\ ~grads'.null
            /\ DOMAIN grads'.grad = 0..(task.dof - 1)
            /\ \A i \in 0..(task.dof - 1) :
                 DOMAIN grads'.grad[i] = 0..(fea_params.nodes_per_element - 1)
            /\ grads'.detJ = detJ'
       ELSE grads'.null /\ heap' = heap]_vars

\* C9 witness: solver_new_shape_gradients has returned null after a failed
\* inversion.
C9_Witness == pc = "accumulate" /\ ~inv_ret /\ grads.null

\* C10: when the next quadrature point starts, and when
\* solver_local_stiffness has returned, no allocation of
\* solver_new_shape_gradients is live and every block released was released
\* once.
C10_GradientsReleased ==
  pc \in {"gauss_loop", "elements", "done"} =>
    /\ \A b \in heap : b[1] \notin GradKinds
    /\ \A b \in DOMAIN frees : frees[b] = 1

\* the blocks free_nodes_array releases: the rows, the row array, the struct
node_table_blocks ==
  {Blk("nodes_array", -1, -1, -1), Blk("nodes", -1, -1, -1)}
  \cup {Blk("node", -1, -1, n) : n \in 0..(NodesPerElement - 1)}

\* C11: from the call of solve to its return the node coordinate table is
\* neither written nor released: once loaded, every coordinate keeps its value
\* and the table's blocks are still allocated, also when solve has returned.
C11_NodeTableStaysWithCaller ==
  ~nodes.null => (nodes.nodes = RefNodeTable /\ node_table_blocks \subseteq heap)

\* C12: the element database is built once: gauss_nodes is only ever assigned
\* while it is null, and a call of solver_create_element_database on a solver
\* whose database exists allocates nothing and leaves gauss_nodes, with every
\* weight, form and dform, as it was.
C12_DatabaseBuiltOnce ==
  [][/\ gauss_nodes' # gauss_nodes => gauss_nodes = << >>
     /\ (pc = "elements" /\ pc' # "elements" /\ gauss_nodes # << >>) =>
          (pc' = "rebuilt" /\ heap' = heap /\ gauss_nodes' = gauss_nodes)]_vars

\* C12 witness: a second call has returned on a solver whose database holds
\* the entries of every gauss node.
C12_Witness ==
  /\ pc = "rebuilt"
  /\ DOMAIN gauss_nodes = 0..(fea_params.gauss_nodes_count - 1)
  /\ Blk("gauss_nodes", -1, -1, -1) \in heap

\* C13: once the element database exists no step changes a gauss-node entry
\* (weight, forms, dforms keep their values for every element processed), and
\* its blocks stay allocated until free_fea_solver has run.
C13_DatabaseNeverMutated ==
  [][gauss_nodes # << >> =>
       /\ gauss_nodes' = gauss_nodes
       /\ pc' # "done" =>
            element_database_blocks(fea_params.gauss_nodes_count, task.dof)
              \subseteq heap']_vars

\* C13 witness: an element has been processed completely with the database in
\* place.
C13_Witness ==
  pc = "elements" /\ el >= 1 /\ gauss_nodes # << >> /\ ~grads.null

\* C14: the database exists before any element is processed; an element is
\* entered at quadrature point 0 and with an index below elements_count; the
\* quadrature point advances by one, after the point was processed; the
\* element index advances by one, and only when every quadrature point of the
\* element is done; solve ends when the index has reached elements_count.
C14_SequentialOrder ==
  [][/\ pc' \in {"gauss_loop", "accumulate", "free_grads"} => gauss_nodes' # << >>
     /\ (pc = "elements" /\ pc' = "gauss_loop") =>
          (el < elements.elements_count /\ el' = el /\ gauss' = 0)
     /\ (pc = "gauss_loop" /\ pc' \in {"accumulate", "crashed"}) =>
          (gauss < fea_params.gauss_nodes_count /\ gauss' = gauss /\ el' = el)
     /\ (gauss' # gauss /\ pc # "elements") =>
          (pc = "free_grads" /\ gauss' = gauss + 1 /\ el' = el)
     /\ el' # el =>
          (pc = "gauss_loop" /\ gauss = fea_params.gauss_nodes_count /\ el' = el + 1)
     /\ pc' = "done" => el = elements.elements_count]_vars

\* C14 witness: solve has finished a mesh of MaxElements elements.
C14_Witness == pc = "done" /\ el = MaxElements /\ elements.elements_count = MaxElements

\* the shape gradients of every gauss node for the element being processed
element_gradients ==
  [g \in 0..(fea_params.gauss_nodes_count - 1) |->
     shape_gradients_of(gauss_nodes[g], element_coords(el, ZeroMat3[0]),
                        fea_params.nodes_per_element, single)]

\* sum over k, l of grad[k][a] * C[i][k][j][l] * grad[l][b]
GradCGrad(grad, C, a, b, i, j) ==
  RSumTo([k \in 0..(MAX_DOF - 1) |->
            RSumTo([l \in 0..(MAX_DOF - 1) |->
                      RMul(grad[k][a], RMul(C[i][k][j][l], grad[l][b]))], MAX_DOF)],
         MAX_DOF)

\* C15: the local stiffness matrix of an element is the zero square matrix of
\* size nodes_per_element*dof when the loop over the quadrature points starts,
\* and when the loop is over stiff[a*dof+i][b*dof+j] is the sum, over the
\* quadrature points g whose Jacobian inverted, of
\* (sum over k,l of grad_g[k][a]*C[i][k][j][l]*grad_g[l][b]) * |detJ_g| * weight_g.
C15_LocalStiffnessFormula ==
  LET nelem == fea_params.nodes_per_element
      dof   == task.dof
      count == fea_params.gauss_nodes_count
  IN  /\ (pc = "gauss_loop" /\ gauss = 0) =>
           stiff = [I \in 0..(nelem * dof - 1) |-> [K \in 0..(nelem * dof - 1) |-> RZero]]
      /\ (pc = "gauss_loop" /\ gauss = count) =>
           LET sg == element_gradients
           IN  /\ sg = sg    \* the gradients are evaluated once, here
               /\ \A a, b \in 0..(nelem - 1) : \A i, j \in 0..(dof - 1) :
                    stiff[a * dof + i][b * dof + j] =
                      RSumTo([g \in 0..(count - 1) |->
                                IF sg[g].ok
                                THEN RMul(RMul(GradCGrad(sg[g].grad, ctens, a, b, i, j),
                                               RAbs(sg[g].detJ)),
                                          gauss_nodes[g].weight)
                                ELSE RZero], count)

\* C15 witness: the loop over the quadrature points of an element with a
\* negative Jacobian determinant is over and the matrix is not zero.
C15_Witness ==
  /\ pc = "gauss_loop"
  /\ gauss = fea_params.gauss_nodes_count
  /\ ~grads.null
  /\ RAbs(grads.detJ) # grads.detJ
  /\ stiff[0][0] # RZero

\* C16: the local stiffness matrix is symmetric, stiff[I][J] = stiff[J][I] for
\* all I, J, after the contribution of each quadrature point as well as at
\* the end, for every geometry and every material.
C16_StiffnessSymmetric ==
  stiff # << >> =>
    \A I, K \in 0..(fea_params.nodes_per_element * task.dof - 1) :
      stiff[I][K] = stiff[K][I]

\* C16 witness: a quadrature point has contributed, with lambda # mu, and an
\* entry off the diagonal blocks is not zero.
C16_Witness ==
  /\ pc = "free_grads"
  /\ ~grads.null
  /\ task.parameters[0] # task.parameters[1]
  /\ stiff[0][4] # RZero

\* C17: every row of the local stiffness matrix sums to zero direction by
\* direction: for every row I and direction j the sum over the local nodes b
\* of stiff[I][b*dof+j] is zero, for the reference tetrahedron with
\* lambda = mu = 100 and 4 gauss nodes and for every other element.
C17_RowSumsVanish ==
  stiff # << >> =>
    \A I \in 0..(fea_params.nodes_per_element * task.dof - 1) :
      \A j \in 0..(task.dof - 1) :
        RSumTo([b \in 0..(fea_params.nodes_per_element - 1) |->
                  stiff[I][b * task.dof + j]],
               fea_params.nodes_per_element) = RZero

\* C17 witness: the four quadrature points of the reference tetrahedron with
\* lambda = mu = 100 have contributed.
C17_Witness ==
  /\ pc = "gauss_loop"
  /\ gauss = 4
  /\ fea_params.gauss_nodes_count = 4
  /\ nodes.nodes = RefNodeTable
  /\ elements.elements[0] = RowRef
  /\ task.parameters[0] = RInt(DefaultLambda)
  /\ task.parameters[1] = RInt(DefaultMu)
  /\ stiff[0][0] # RZero

\* the local stiffness matrix solver_local_stiffness computes for the element
\* being processed when its nodes are read from the table T
stiffness_over(T) ==
  local_stiffness_upto(gauss_nodes,
                       [k \in 0..(fea_params.nodes_per_element - 1) |->
                          T[elements.elements[el][k]]],
                       ctens, fea_params.nodes_per_element, task.dof, single,
                       fea_params.gauss_nodes_count)
MatScaled(c, K) == [I \in DOMAIN K |-> [L \in DOMAIN K[I] |-> RMul(c, K[I][L])]]

\* C18 as stated: for every factor c applied to all node coordinates of an
\* element, the local stiffness matrix of the scaled element is c times the
\* local stiffness matrix of the original element, entry by entry.
C18_ScalesByFactor ==
  (pc = "gauss_loop" /\ gauss = fea_params.gauss_nodes_count) =>
    \A T \in BaseNodeTables : \A c \in ElementScales :
      nodes.nodes = scaled_table(T, c) => stiff = MatScaled(c, stiffness_over(T))

\* C18 amended: for every factor c other than 0 applied to all node
\* coordinates of an element, the local stiffness matrix of the scaled element
\* is |c| times the local stiffness matrix of the original element, entry by
\* entry (grad scales by 1/c, fabs(detJ) by |c|^3); it is c times for c > 0.
C18_ScalesByMagnitude ==
  (pc = "gauss_loop" /\ gauss = fea_params.gauss_nodes_count) =>
    \A T \in BaseNodeTables : \A c \in ElementScales :
      nodes.nodes = scaled_table(T, c) =>
        stiff = MatScaled(RAbs(c), stiffness_over(T))

\* C18 witness: the stiffness matrix of a non-degenerate element whose
\* coordinates were multiplied by 3 is complete.
C18_Witness ==
  /\ pc = "gauss_loop"
  /\ gauss = fea_params.gauss_nodes_count
  /\ nodes.nodes = scaled_table(SkewNodeTable, RInt(3))
  /\ ~grads.null
  /\ stiff[0][0] # RZero

\* C19: solver_ctensor fills all 81 entries, and for all parameters
\* (lambda, mu) and all i, j, k, l in {0,1,2} the entry ctensor[i][j][k][l] is
\* lambda*delta(i,j)*delta(k,l) + mu*delta(i,k)*delta(j,l) + mu*delta(i,l)*delta(j,k).
C19_IsotropicTensor ==
  pc = "ctensor_ret" =>
    LET lambda == task.parameters[0]
        mu     == task.parameters[1]
        D      == 0..(MAX_DOF - 1)
    IN  /\ DOMAIN ctens = D
        /\ \A i, j, k, l \in D :
             /\ DOMAIN ctens[i] = D /\ DOMAIN ctens[i][j] = D /\ DOMAIN ctens[i][j][k] = D
             /\ ctens[i][j][k][l] =
                  RAdd(IF i = j /\ k = l THEN lambda ELSE RZero,
                       RAdd(IF i = k /\ j = l THEN mu ELSE RZero,
                            IF i = l /\ j = k THEN mu ELSE RZero))

\* C19 witness: solver_ctensor has returned for lambda # mu, neither zero.
C19_Witness ==
  /\ pc = "ctensor_ret"
  /\ task.parameters[0] # task.parameters[1]
  /\ task.parameters[0] # RZero
  /\ task.parameters[1] # RZero
  /\ ctens[0][0][0][0] # ctens[1][1][0][0]

\* C20: for all (lambda, mu) the tensor built by solver_ctensor has the minor
\* and major symmetries: C[i][j][k][l] = C[j][i][k][l] = C[i][j][l][k] =
\* C[k][l][i][j] for all i, j, k, l in {0,1,2}.
C20_TensorSymmetries ==
  pc = "ctensor_ret" =>
    \A i, j, k, l \in 0..(MAX_DOF - 1) :
      /\ ctens[i][j][k][l] = ctens[j][i][k][l]
      /\ ctens[i][j][k][l] = ctens[i][j][l][k]
      /\ ctens[i][j][k][l] = ctens[k][l][i][j]

\* C20 witness: solver_ctensor has returned a tensor whose shear entry
\* C[0][1][0][1] and whose entry C[0][0][1][1] are not zero and differ.
C20_Witness ==
  /\ pc = "ctensor_ret"
  /\ ctens[0][1][0][1] # RZero
  /\ ctens[0][0][1][1] # RZero
  /\ ctens[0][1][0][1] # ctens[0][0][1][1]

C22_RoundTripAlways ==
  [][(pc = "inv3x3_ret" /\ pc' = "inv3x3_ret2") =>
       /\ inv_ret'
       /\ J' \in RoundTripMatrices
       /\ MatMul3(J', J) = Identity3
       /\ MatMul3(J, J') = Identity3
       /\ RMul(detJ', detJ) = RInt(1)]_vars

\* C22 amended: the second call reports the reciprocal of the first
\* determinant in every case; it succeeds and restores M exactly when that
\* reciprocal is above the tolerance of EQL (FLT_MIN or DBL_MIN), and returns
\* FALSE leaving the inverse in place when it is not.
C22_RoundTripAboveMin ==
  [][(pc = "inv3x3_ret" /\ pc' = "inv3x3_ret2") =>
       /\ RMul(detJ', detJ) = RInt(1)
       /\ inv_ret' = ~RAbsLeq(RDiv(RInt(1), detJ), IF single THEN FLT_MIN ELSE DBL_MIN)
       /\ inv_ret' => /\ J' \in RoundTripMatrices
                      /\ MatMul3(J', J) = Identity3
                      /\ MatMul3(J, J') = Identity3
       /\ ~inv_ret' => J' = J]_vars

\* C22 witness: the second call has restored a matrix that is not symmetric
\* and whose determinant is neither 1 nor -1.
C22_Witness ==
  /\ pc = "inv3x3_ret2"
  /\ inv_ret
  /\ J[0][1] # J[1][0]
  /\ detJ # RInt(1)
  /\ detJ # RInt(-1)

\* the sum of the weights (column 0) of a quadrature table of n rows
weights_sum(data, n) == RSumTo([g \in 0..(n - 1) |-> data[g][0]], n)

\* C23: in each of the two quadrature tables the weights sum to 1/6, the
\* measure of the reference tetrahedron, and so do the weights held in the
\* element database; the 1/6 is in the weights only: what the loop body of
\* solver_local_stiffness adds to stiff[a*dof+i][b*dof+j] for a quadrature
\* point is (sum over k,l of grad[k][a]*C[i][k][j][l]*grad[l][b]) times
\* |detJ| times the table weight of that point, with no further divisor.
C23_WeightsCarryTheVolume ==
  [][/\ weights_sum(gauss_nodes4_tetr10, 4) = RFrac(1, 6)
     /\ weights_sum(gauss_nodes5_tetr10, 5) = RFrac(1, 6)
     /\ RSumTo([g \in DOMAIN gauss_nodes |-> gauss_nodes[g].weight],
               fea_params.gauss_nodes_count) = RFrac(1, 6)
     /\ (pc = "accumulate" /\ pc' # pc /\ ~grads.null) =>
          LET nelem == fea_params.nodes_per_element
              dof   == task.dof
              w     == table_data(gauss_nodes_data)[gauss][0]
              scale == RMul(RAbs(grads.detJ), w)
          IN  \A a, b \in 0..(nelem - 1) : \A i, j \in 0..(dof - 1) :
                stiff'[a * dof + i][b * dof + j] =
                  RAdd(stiff[a * dof + i][b * dof + j],
                       RMul(GradCGrad(grads.grad, ctens, a, b, i, j), scale))]_vars

\* C23 witness: a quadrature point of the 5-point table with a positive
\* weight has been accumulated for an element of determinant other than 1.
C23_Witness ==
  /\ pc = "free_grads"
  /\ fea_params.gauss_nodes_count = 5
  /\ gauss = 1
  /\ ~grads.null
  /\ RAbs(grads.detJ) # RInt(1)
  /\ stiff[0][0] # RZero

\* (r,s,t) of a table row is a permutation of {big, small, small}
permutes(row, big, small) ==
  \E k \in 1..3 : row[k] = big /\ \A j \in (1..3) \ {k} : row[j] = small

\* the table solver_create_element_params_tetrahedra10 has selected is the
\* 4-point one exactly for gauss_nodes_count 4, the 5-point one for 5
table_selected ==
  (pc \in {"create_db", "elements", "gauss_loop", "accumulate", "free_grads"}) =>
    /\ (fea_params.gauss_nodes_count = 4) = (gauss_nodes_data = "tetr4")
    /\ (fea_params.gauss_nodes_count = 5) = (gauss_nodes_data = "tetr5")

\* C24 as stated: every one of the four points of the 4-point table has
\* weight (1/4)/6 and (r,s,t) a permutation of {0.58541020, 0.13819660,
\* 0.13819660}; the 5-point table has one point of weight (-4/5)/6 at
\* (1/4,1/4,1/4) and four points of weight (9/20)/6 whose (r,s,t) are each
\* a permutation of {1/2, 1/6, 1/6}; gauss_nodes_count 4 selects the first
\* table and 5 the second.
C24_EveryPointPermutes ==
  /\ \A g \in 0..3 :
       /\ gauss_nodes4_tetr10[g][0] = RDiv(RFrac(1, 4), RInt(6))
       /\ permutes(gauss_nodes4_tetr10[g], LitA, LitB)
  /\ gauss_nodes5_tetr10[0] =
       ZSeq(<<RDiv(RFrac(-4, 5), RInt(6)), RFrac(1, 4), RFrac(1, 4), RFrac(1, 4)>>)
  /\ \A g \in 1..4 :
       /\ gauss_nodes5_tetr10[g][0] = RDiv(RFrac(9, 20), RInt(6))
       /\ permutes(gauss_nodes5_tetr10[g], RFrac(1, 2), RFrac(1, 6))
  /\ table_selected

\* C24 amended: all four points of the 4-point table have weight (1/4)/6;
\* the first three have (r,s,t) a permutation of {0.58541020, 0.13819660,
\* 0.13819660} with r, s, t taking the larger value in turn, the fourth is
\* (0.13819660, 0.13819660, 0.13819660), where the larger value falls on
\* 1-r-s-t.  The 5-point table has one point of weight (-4/5)/6 at
\* (1/4,1/4,1/4) and four points of weight (9/20)/6: three with r, s, t
\* taking 1/2 in turn and the others 1/6, and (1/6,1/6,1/6), where 1-r-s-t is
\* 1/2.  gauss_nodes_count 4 selects the first table and 5 the second.
C24_LastPointOnFourthCoordinate ==
  LET fourth(row) == RSub(RInt(1), RSum3(row[1], row[2], row[3]))
  IN  /\ \A g \in 0..3 : gauss_nodes4_tetr10[g][0] = RDiv(RFrac(1, 4), RInt(6))
      /\ \A g \in 0..2 :
           /\ permutes(gauss_nodes4_tetr10[g], LitA, LitB)
           /\ gauss_nodes4_tetr10[g][g + 1] = LitA
           /\ fourth(gauss_nodes4_tetr10[g]) = LitB
      /\ \A k \in 1..3 : gauss_nodes4_tetr10[3][k] = LitB
      /\ fourth(gauss_nodes4_tetr10[3]) = LitA
      /\ gauss_nodes5_tetr10[0] =
           ZSeq(<<RDiv(RFrac(-4, 5), RInt(6)), RFrac(1, 4), RFrac(1, 4), RFrac(1, 4)>>)
      /\ \A g \in 1..4 : gauss_nodes5_tetr10[g][0] = RDiv(RFrac(9, 20), RInt(6))
      /\ \A g \in 1..3 :
           /\ permutes(gauss_nodes5_tetr10[g], RFrac(1, 2), RFrac(1, 6))
           /\ gauss_nodes5_tetr10[g][g] = RFrac(1, 2)
           /\ fourth(gauss_nodes5_tetr10[g]) = RFrac(1, 6)
      /\ \A k \in 1..3 : gauss_nodes5_tetr10[4][k] = RFrac(1, 6)
      /\ fourth(gauss_nodes5_tetr10[4]) = RFrac(1, 2)
      /\ table_selected

\* C24 witness: the element database holds the last point of the 4-point
\* table, the one whose r, s and t are all the smaller value.
C24_Witness ==
  /\ pc = "elements"
  /\ fea_params.gauss_nodes_count = 4
  /\ gauss_nodes_data = "tetr4"
  /\ gauss_nodes # << >>
  /\ table_data(gauss_nodes_data)[3][1] = table_data(gauss_nodes_data)[3][2]
  /\ table_data(gauss_nodes_data)[3][2] = table_data(gauss_nodes_data)[3][3]

\* C25: the local stiffness matrix of an element depends only on the
\* element's own connectivity row, the coordinates of its nodes, (lambda, mu)
\* and the quadrature rule: whatever other elements the session holds and
\* wherever the element stands in the processing order, the matrix computed
\* for it is the one computed by a session that holds this element alone.
C25_ElementIndependence ==
  (pc = "gauss_loop" /\ gauss = fea_params.gauss_nodes_count) =>
    stiff = stiffness_alone(elements.elements[el], nodes.nodes,
                            task.parameters[0], task.parameters[1],
                            fea_params.gauss_nodes_count,
                            fea_params.nodes_per_element, task.dof, single)

\* C25 witness: the matrix of an element that is not the first of its
\* session, and whose row differs from the first one's, is complete and is
\* not zero.
C25_Witness ==
  /\ pc = "gauss_loop"
  /\ gauss = fea_params.gauss_nodes_count
  /\ el = 1
  /\ elements.elements[1] # elements.elements[0]
  /\ stiff[0][0] # RZero

\* C26: for every (element, quadrature point) whose Jacobi matrix inverts,
\* grad[i][j] = sum over k of Jinv[i][k] * dforms[k][j], where Jinv is the
\* inverse of J[i][j] = sum over k of dforms[i][k] * (coordinate j of node
\* elements[element][k]); consequently grad times the matrix of the element's
\* nodal coordinates is the 3x3 identity.
C26_GradientsInvertGeometry ==
  (pc = "accumulate" /\ ~grads.null) =>
    LET nelem == fea_params.nodes_per_element
        D     == 0..(MAX_DOF - 1)
        d     == gauss_nodes[gauss].dforms
        X     == [k \in 0..(nelem - 1) |-> nodes.nodes[elements.elements[el][k]]]
        Jac   == [i \in D |-> [j \in D |->
                    RSumTo([k \in 0..(nelem - 1) |-> RMul(d[i][k], X[k][j])], nelem)]]
    IN  /\ Jac = Jac
        /\ MatMul3(J, Jac) = Identity3
        /\ MatMul3(Jac, J) = Identity3
        /\ \A i \in D : \A j \in 0..(nelem - 1) :
             grads.grad[i][j] =
               RSumTo([k \in D |-> RMul(J[i][k], d[k][j])], MAX_DOF)
        /\ \A i, j \in D :
             RSumTo([n \in 0..(nelem - 1) |-> RMul(grads.grad[i][n], X[n][j])],
                    nelem) = Identity3[i][j]

\* C26 witness: gradients exist for an element whose Jacobi matrix is not
\* symmetric, at a quadrature point of the 5-point rule.
C26_Witness ==
  /\ pc = "accumulate"
  /\ ~grads.null
  /\ fea_params.gauss_nodes_count = 5
  /\ J[0][1] # J[1][0]
  /\ grads.grad[0][1] # RZero

\* C27: the detJ stored in the shape gradients is the determinant of the
\* Jacobi matrix as it was before inv3x3 inverted it in place, not the
\* determinant of the inverted matrix J holds afterwards (the two are
\* reciprocal), and the assembler scales the contribution of the quadrature
\* point by the absolute value of that determinant.
C27_DeterminantBeforeInversion ==
  [][(pc = "accumulate" /\ ~grads.null) =>
       LET nelem == fea_params.nodes_per_element
           dof   == task.dof
           D     == 0..(MAX_DOF - 1)
           d     == gauss_nodes[gauss].dforms
           X     == [k \in 0..(nelem - 1) |-> nodes.nodes[elements.elements[el][k]]]
           Jac   == [i \in D |-> [j \in D |->
                       RSumTo([k \in 0..(nelem - 1) |-> RMul(d[i][k], X[k][j])], nelem)]]
           before == det3x3(Jac)
           scale  == RMul(RAbs(before), gauss_nodes[gauss].weight)
       IN  /\ grads.detJ = before
           /\ RMul(grads.detJ, det3x3(J)) = RInt(1)
           /\ (grads.detJ = det3x3(J)) = (before \in {RInt(1), RInt(-1)})
           /\ pc' # pc =>
                \A a, b \in 0..(nelem - 1) : \A i, j \in 0..(dof - 1) :
                  stiff'[a * dof + i][b * dof + j] =
                    RAdd(stiff[a * dof + i][b * dof + j],
                         RMul(GradCGrad(grads.grad, ctens, a, b, i, j), scale))]_vars

\* C27 witness: a quadrature point has been accumulated with a negative
\* determinant that differs from the determinant of the inverted matrix.
C27_Witness ==
  /\ pc = "free_grads"
  /\ ~grads.null
  /\ grads.detJ # det3x3(J)
  /\ RAbs(grads.detJ) # grads.detJ
  /\ stiff[0][0] # RZero

\* C28: over any well-nested sequence of begin-tag and end-tag events,
\* nodes_count is set and the node table allocated only by a nodes tag that
\* is a direct child of a currently open geometry tag, and likewise the
\* element table only by such an elements tag; a nodes or elements tag met
\* anywhere else is ignored, whatever tags were opened and closed before it.
C28_TablesOnlyUnderGeometry ==
  [][(nodes' # nodes \/ elements' # elements \/ heap' # heap) =>
       /\ open_tags # << >>
       /\ open_tags[Len(open_tags)] = "GEOMETRY"
       /\ open_tags' = Append(open_tags,
                              IF nodes' # nodes THEN "NODES" ELSE "ELEMENTS")]_vars

\* C29: partition of unity: at every point (r,s,t) the ten values of
\* tetrahedra10_isoform sum to 1 and, for each of the three axes, the ten
\* values of tetrahedra10_disoform sum to 0; hence the forms of every
\* quadrature point of the element database sum to 1 and each of its dforms
\* rows sums to 0.
C29_PartitionOfUnity ==
  LET nelem == NodesPerElement
      point == gauss_nodes_data[0]
  IN  /\ RSumTo([i \in 0..(nelem - 1) |->
                   tetrahedra10_isoform(i, point[1], point[2], point[3])], nelem)
           = RInt(1)
      /\ \A dof \in 0..(MAX_DOF - 1) :
           RSumTo([i \in 0..(nelem - 1) |->
                     tetrahedra10_disoform(i, dof, point[1], point[2], point[3])],
                  nelem) = RZero
      /\ \A g \in DOMAIN gauss_nodes :
           /\ RSumTo(gauss_nodes[g].forms, nelem) = RInt(1)
           /\ \A dof \in 0..(MAX_DOF - 1) :
                RSumTo(gauss_nodes[g].dforms[dof], nelem) = RZero

\* C29 witness: a gauss node has been built at a point outside the reference
\* tetrahedron, where some shape function is negative and the ten are not
\* all equal.
C29_Witness ==
  /\ pc = "new_gauss_node_ret"
  /\ gauss_nodes_data[0][1] = RFrac(-1, 4)
  /\ gauss_nodes_data[0][2] = RFrac(3, 4)
  /\ gauss_nodes[0].forms[5] = RFrac(-3, 4)
  /\ gauss_nodes[0].dforms[0][5] = RInt(3)

\* the steps of the central differences
DifferenceSteps == {RFrac(1, 2), RFrac(-1, 4), RInt(3), RFrac(1, 6)}

\* C30: tetrahedra10_disoform(i, dof, r, s, t) is the exact partial
\* derivative of tetrahedra10_isoform(i, r, s, t) along axis dof: the shape
\* functions being quadratic, at every point and for every step h other than
\* 0 it equals the central difference (N_i(x + h e) - N_i(x - h e)) / (2h).
C30_DerivativeIsCentralDifference ==
  pc = "new_gauss_node_ret" =>
    LET point == gauss_nodes_data[0]
        at(dof, h) == [k \in 1..3 |-> IF k = dof + 1 THEN RAdd(point[k], h)
                                      ELSE point[k]]
        N(i, x) == tetrahedra10_isoform(i, x[1], x[2], x[3])
    IN  \A i \in 0..(NodesPerElement - 1) : \A dof \in 0..(MAX_DOF - 1) :
          \A h \in DifferenceSteps :
            /\ gauss_nodes[0].dforms[dof][i] =
                 RDiv(RSub(N(i, at(dof, h)), N(i, at(dof, RNeg(h)))),
                      RMul(RInt(2), h))
            /\ tetrahedra10_disoform(i, dof, point[1], point[2], point[3]) =
                 gauss_nodes[0].dforms[dof][i]

\* C30 witness: the derivatives have been evaluated at a point where the
\* derivative of the mid-edge function 4 along r is neither zero nor the
\* value it has at the origin.
C30_Witness ==
  /\ pc = "new_gauss_node_ret"
  /\ gauss_nodes[0].dforms[0][4] # RZero
  /\ gauss_nodes[0].dforms[0][4] # RInt(4)
  /\ gauss_nodes[0].dforms[1][6] # gauss_nodes[0].dforms[0][4]
  /\ gauss_nodes_data[0][3] # RZero

=============================================================================
